---- MODULE Spec2Model ----
(***************************************************************************)
(* Model of the detection / validation / execution pipeline of             *)
(* auto_swap_bot: the Event Watcher (TokenMonitor, auto_swap.py), the      *)
(* Pipeline Coordinator (AutoSellBot.process_token, auto_swap.py) and the  *)
(* Swap Orchestrator (SwapExecutor.execute_swap, swap_executor.py).        *)
(*                                                                         *)
(* Specifications:                                                         *)
(*   Spec          the Event Watcher: start_monitoring, the subscription   *)
(*                 loop, its fallback, the polling loop and the handler    *)
(*                 calls.                                                  *)
(*   SpecFair      Spec with weak fairness of the watcher's steps.         *)
(*   SpecPipeline  one handler call after the other: process_token and,    *)
(*                 inside it, execute_swap.                                *)
(*   SpecGate      validate_token on its own.                              *)
(*   SpecBot       AutoSellBot.run: the watcher with process_token as its  *)
(*                 handler.                                                *)
(*   SpecOracle    LiquidityChecker.check_liquidity_dexscreener on its     *)
(*                 own.                                                    *)
(*   SpecSniper    SpecificTokenMonitor.check_and_sell (sniper_sell.py),   *)
(*                 one check after the other.                              *)
(*   SpecAdapters  the aggregator adapters (aggregators package):          *)
(*                 set_chain, get_quote, get_swap_tx, is_available.        *)
(*   SpecTwin      the log processing of the polling loop and of the       *)
(*                 subscription loop, fed the same transfers.              *)
(*   SpecFallback  the Event Watcher started subscribed, with a record of  *)
(*                 what the subscription loop passed over, up to and past  *)
(*                 its fallback to polling.                                *)
(***************************************************************************)
EXTENDS Integers, Sequences, FiniteSets, TLC

\* ------------------------------------------------------------------------
\* Program constants
\* ------------------------------------------------------------------------
\* config.DUPLICATE_CHECK_BLOCKS
DUPLICATE_CHECK_BLOCKS == 3
\* config.MONITOR_INTERVAL, passed as num_blocks to scan_recent_blocks
MONITOR_INTERVAL == 10
\* max_retries of monitor_loop_websocket / monitor_loop_polling
max_retries == 5
\* config.MIN_LIQUIDITY (USD)
MIN_LIQUIDITY == 3000
\* config.MAX_GAS_PRICE (gwei)
MAX_GAS_PRICE == 500
\* config.AGGREGATOR_PRIORITY
AGGREGATOR_PRIORITY == << "1inch", "0x", "uniswap", "okx" >>
\* decimals assumed by process_token when the decimals() read fails
DEFAULT_DECIMALS == 18
\* sniper_sell.MIN_LIQUIDITY_USD
MIN_LIQUIDITY_USD == 1000
\* sniper_sell.LIQUIDITY_GROWTH_THRESHOLD (1.0), in tenths
LIQUIDITY_GROWTH_THRESHOLD == 10

\* ------------------------------------------------------------------------
\* Bounds of the model
\* ------------------------------------------------------------------------
\* highest block height the gateway reports
MaxBlock == 13
\* most logs one get_logs answer carries
MaxBatch == 2
\* how far below last_block_scanned a reported height may lie (a node that
\* lags behind the one asked before), and how often that happens in a run
MaxLag == 1
MaxRegress == 1
\* highest balanceOf() answer, in the token's smallest unit
MaxBalance == 2
\* highest block the chain reaches while the watcher runs together with the
\* handler (SpecBot)
BotMaxBlock == 4
\* number of checks of the sniper that find tradeable liquidity
MaxChecks == 3
\* highest block the chain reaches while the watcher falls back from the
\* subscription to polling (SpecFallback)
FbMaxBlock == 7
\* number of logs handed to the two monitors that run side by side
MaxFed == 4

\* ------------------------------------------------------------------------
\* Values: addresses, hashes, logs
\* ------------------------------------------------------------------------
\* An address is <<digits, case>>: the same 20 bytes written in lower case
\* or in checksum case.  A transaction hash is <<form, digits>>: HexBytes
\* (get_logs) or the JSON string (subscription).  A subscription block
\* number is the JSON hex string <<"hex", n>>.
lower(addr) == <<addr[1], "lower">>

to_checksum_address(addr) == <<addr[1], "checksum">>

hex(h) == <<"str", h[2]>>

int16(s) == s[2]

my_address == "me"

\* The transfers the chain may hold.  Block numbers are placed around the
\* cooldown of token "a" after block 1: inside it, on its boundary and one
\* past it; transaction "t1" is also seen a second time in a later block
\* (re-mined after a reorganisation); "t5" does not pay the watched address;
\* the last one lies beyond a full scan window.
TransferSeq ==
    << [token |-> "a", tx |-> "t1", block |-> 1, to |-> "me"],
       [token |-> "a", tx |-> "t2", block |-> 2, to |-> "me"],
       [token |-> "b", tx |-> "t1", block |-> 2, to |-> "me"],
       [token |-> "a", tx |-> "t5", block |-> 3, to |-> "other"],
       [token |-> "a", tx |-> "t3", block |-> 1 + DUPLICATE_CHECK_BLOCKS, to |-> "me"],
       [token |-> "a", tx |-> "t4", block |-> 2 + DUPLICATE_CHECK_BLOCKS, to |-> "me"],
       [token |-> "a", tx |-> "t1", block |-> 2 + DUPLICATE_CHECK_BLOCKS, to |-> "me"],
       [token |-> "b", tx |-> "t6", block |-> MONITOR_INTERVAL + 3, to |-> "me"] >>

Transfers == { TransferSeq[i] : i \in 1..Len(TransferSeq) }

\* the log of a transfer as w3.eth.get_logs returns it
PollLog(t) ==
    [ address         |-> <<t.token, "checksum">>,
      transactionHash |-> <<"bytes", t.tx>>,
      blockNumber     |-> t.block,
      topics          |-> <<"Transfer", "from", t.to>> ]

\* the log of a transfer as an eth_subscription message carries it
WsLog(t, case) ==
    [ address         |-> <<t.token, case>>,
      transactionHash |-> <<"str", t.tx>>,
      blockNumber     |-> <<"hex", t.block>>,
      topics          |-> <<"Transfer", "from", t.to>> ]

EventKeys == { <<lower(<<t.token, "x">>), <<"str", t.tx>>>> : t \in Transfers }

Max(a, b) == IF a >= b THEN a ELSE b

\* a gateway, contract or HTTP call that raises instead of answering
Raises == -1

\* Python values of an Optional[Dict]
None == [ kind |-> "None" ]

EmptyDict == [ kind |-> "{}" ]

NoLiquidity == [ has_liquidity |-> FALSE, liquidity_usd |-> 0 ]

NoBalance == [ raw |-> 0, decimals |-> 0 ]

NoTx == [ nonce |-> Raises ]

\* ------------------------------------------------------------------------
\* State
\* ------------------------------------------------------------------------
VARIABLES
    \* TokenMonitor (DetectionState)
    known_tokens,        \* set of lower-case token addresses
    processed_events,    \* set of <<token address, tx hash>>
    token_last_block,    \* token address -> block of its last emission
    last_block_scanned,
    ws_connected,
    \* position of the monitor coroutine and its locals
    pc,
    retry_count,
    new_tokens,          \* tokens still to be passed to callback(token)
    \* observation of the run (not program state)
    new_events,          \* the event key behind each entry of new_tokens
    decisions,           \* what the last scan / message did with each log
    emit_count,          \* event key -> number of callback calls (2 = more than one)
    scanned,             \* blocks that lay in the range of some get_logs query
    rescanned,           \* some block lay in the range of two queries
    first_scanned,       \* fromBlock of the first non-empty range, 0 before it
    regressed,           \* times the gateway reported a height below last_block_scanned
    faults               \* what went wrong since the last sleep / the last message

wvars == << known_tokens, processed_events, token_last_block, last_block_scanned,
            ws_connected, pc, retry_count, new_tokens, new_events, decisions,
            emit_count, scanned, rescanned, first_scanned, regressed, faults >>

VARIABLES
    \* Config
    safe_mode,
    blacklist_tokens,
    whitelist_tokens,
    \* AutoSellBot.process_token: position and locals
    pt_pc,
    pt_token_address,    \* the token_address argument of process_token
    is_safe,             \* verdict of validate_token, FALSE before the call
    reason,              \* reason given by validate_token, "" before the call
    balance,             \* [raw, decimals]: the Decimal raw / 10 ** decimals
    gas_ok,
    liquidity_info,
    stages,              \* observation: the stages run so far, with their verdict
    reads,               \* observation: what the step run last asked the outside
                         \* world, and the answers it got
    \* SwapExecutor.execute_swap: position and locals
    es_pc,
    amount_in,
    quote,
    swap_data,
    current_allowance,
    signed_tx,           \* nonce of the signed swap transaction
    receipt,             \* what wait_for_transaction_receipt returned
    \* the chain, as far as the signing account is concerned
    tx_count,            \* get_transaction_count(address), counted from the call
    approve_pending,     \* an approve transaction was sent and is not mined yet
    \* observation of the attempt (not program state)
    es_trace,            \* the states of the attempt, in the order entered
    approve_calls,       \* outcomes of the approve_token calls
    signed,              \* number of swap transactions signed
    sent                 \* transactions accepted by send_raw_transaction

pvars == << safe_mode, blacklist_tokens, whitelist_tokens, pt_pc, pt_token_address,
            is_safe, reason, balance, gas_ok, liquidity_info, stages, reads,
            es_pc, amount_in, quote, swap_data, current_allowance, signed_tx, receipt,
            tx_count, approve_pending, es_trace, approve_calls, signed, sent >>

VARIABLES
    \* sniper_sell.py: Config and SpecificTokenMonitor
    liquidity_growth_threshold,  \* in tenths: 10 is the factor 1.0
    has_liquidity_detected,
    initial_liquidity,
    current_liquidity,
    max_liquidity_seen,
    liquidity_check_count,
    sn_check,            \* observation: what the last check_and_sell saw and did
    sn_outcomes          \* observation: how each execute_swap call of the sniper ended

svars == << liquidity_growth_threshold, has_liquidity_detected, initial_liquidity,
            current_liquidity, max_liquidity_seen, liquidity_check_count, sn_check,
            sn_outcomes >>

VARIABLES
    \* aggregators/: one Route Provider adapter (AggregatorBase)
    ag_name,
    ag_api_key,          \* whether an API key is configured
    ag_chain_id,         \* 0 while set_chain was not called
    ag_call,             \* observation: the last operation and the service's answer
    ag_result,           \* what the last operation returned
    ag_requests          \* observation: requests the last operation sent

avars == << ag_name, ag_api_key, ag_chain_id, ag_call, ag_result, ag_requests >>

VARIABLES
    \* two watchers fed the same logs: one is polling, one is subscribed
    poll_state,
    ws_state,
    fed                  \* number of logs fed so far

tvars == << poll_state, ws_state, fed >>

VARIABLES
    \* observation of the watcher (not program state)
    block_read,          \* current_block of the last scan whose log query was answered
    ws_suppressed        \* transfers the subscription loop passed over for the cooldown

ovars == << block_read, ws_suppressed >>

xvars == << svars, avars, tvars, ovars >>

vars == << wvars, pvars, xvars >>

NoBlocks == [t \in {} |-> 0]

DetectionState ==
    [ known_tokens     |-> known_tokens,
      processed_events |-> processed_events,
      token_last_block |-> token_last_block,
      new_tokens       |-> << >> ]

\* ------------------------------------------------------------------------
\* TokenMonitor.scan_recent_blocks: the body of "for log in logs"
\* ------------------------------------------------------------------------
\* variant: the emitted event is not added to processed_events
ScanLog_NoRecord(st, log) ==
    LET tx_hash == hex(log.transactionHash) IN
    IF <<lower(log.address), tx_hash>> \in st.processed_events
    THEN st
    ELSE IF Len(log.topics) >= 3 /\ log.topics[3] = my_address
    THEN LET token_address == lower(log.address)
             block_number  == log.blockNumber
         IN  IF /\ token_address \in DOMAIN st.token_last_block
                /\ block_number - st.token_last_block[token_address] < DUPLICATE_CHECK_BLOCKS
             THEN st
             ELSE [ known_tokens     |-> st.known_tokens \cup {token_address},
                    processed_events |-> st.processed_events,
                    token_last_block |->
                        [t \in DOMAIN st.token_last_block \cup {token_address} |->
                            IF t = token_address THEN block_number
                            ELSE st.token_last_block[t]],
                    new_tokens       |-> Append(st.new_tokens, to_checksum_address(token_address)) ]
    ELSE st

\* variant: the cooldown test is "<=" instead of "<"
ScanLog_Inclusive(st, log) ==
    LET tx_hash == hex(log.transactionHash) IN
    IF <<lower(log.address), tx_hash>> \in st.processed_events
    THEN st
    ELSE IF Len(log.topics) >= 3 /\ log.topics[3] = my_address
    THEN LET token_address == lower(log.address)
             block_number  == log.blockNumber
         IN  IF /\ token_address \in DOMAIN st.token_last_block
                /\ block_number - st.token_last_block[token_address] <= DUPLICATE_CHECK_BLOCKS
             THEN st
             ELSE [ known_tokens     |-> st.known_tokens \cup {token_address},
                    processed_events |-> st.processed_events \cup {<<token_address, tx_hash>>},
                    token_last_block |->
                        [t \in DOMAIN st.token_last_block \cup {token_address} |->
                            IF t = token_address THEN block_number
                            ELSE st.token_last_block[t]],
                    new_tokens       |-> Append(st.new_tokens, to_checksum_address(token_address)) ]
    ELSE st

\* variant: no cooldown test in the scan
ScanLog_NoCooldown(st, log) ==
    LET tx_hash == hex(log.transactionHash) IN
    IF <<lower(log.address), tx_hash>> \in st.processed_events
    THEN st
    ELSE IF Len(log.topics) >= 3 /\ log.topics[3] = my_address
    THEN LET token_address == lower(log.address)
             block_number  == log.blockNumber
         IN  [ known_tokens     |-> st.known_tokens \cup {token_address},
               processed_events |-> st.processed_events \cup {<<token_address, tx_hash>>},
               token_last_block |->
                   [t \in DOMAIN st.token_last_block \cup {token_address} |->
                       IF t = token_address THEN block_number
                       ELSE st.token_last_block[t]],
               new_tokens       |-> Append(st.new_tokens, to_checksum_address(token_address)) ]
    ELSE st

\* variant: a transfer passed over for the cooldown moves the token's
\* recorded block (the cooldown runs from the last transfer seen)
ScanLog_Observed(st, log) ==
    LET tx_hash == hex(log.transactionHash) IN
    IF <<lower(log.address), tx_hash>> \in st.processed_events
    THEN st
    ELSE IF Len(log.topics) >= 3 /\ log.topics[3] = my_address
    THEN LET token_address == lower(log.address)
             block_number  == log.blockNumber
         IN  IF /\ token_address \in DOMAIN st.token_last_block
                /\ block_number - st.token_last_block[token_address] < DUPLICATE_CHECK_BLOCKS
             THEN [ st EXCEPT !.token_last_block[token_address] = block_number ]
             ELSE [ known_tokens     |-> st.known_tokens \cup {token_address},
                    processed_events |-> st.processed_events \cup {<<token_address, tx_hash>>},
                    token_last_block |->
                        [t \in DOMAIN st.token_last_block \cup {token_address} |->
                            IF t = token_address THEN block_number
                            ELSE st.token_last_block[t]],
                    new_tokens       |-> Append(st.new_tokens, to_checksum_address(token_address)) ]
    ELSE st

ScanLog(st, log) ==
    LET tx_hash == hex(log.transactionHash) IN
    IF <<lower(log.address), tx_hash>> \in st.processed_events
    THEN st
    ELSE IF Len(log.topics) >= 3 /\ log.topics[3] = my_address
    THEN LET token_address == lower(log.address)
             block_number  == log.blockNumber
         IN  IF /\ token_address \in DOMAIN st.token_last_block
                /\ block_number - st.token_last_block[token_address] < DUPLICATE_CHECK_BLOCKS
             THEN st
             ELSE [ known_tokens     |-> st.known_tokens \cup {token_address},
                    processed_events |-> st.processed_events \cup {<<token_address, tx_hash>>},
                    token_last_block |->
                        [t \in DOMAIN st.token_last_block \cup {token_address} |->
                            IF t = token_address THEN block_number
                            ELSE st.token_last_block[t]],
                    new_tokens       |-> Append(st.new_tokens, to_checksum_address(token_address)) ]
    ELSE st

\* ------------------------------------------------------------------------
\* TokenMonitor.monitor_loop_websocket: the processing of one log message
\* ------------------------------------------------------------------------
\* variant: no cooldown test
WsMessage_NoCooldown(st, log_data) ==
    IF Len(log_data.topics) >= 3 /\ log_data.topics[3] = my_address
    THEN LET token_address == lower(log_data.address)
             tx_hash       == log_data.transactionHash
             block_number  == int16(log_data.blockNumber)
         IN  IF <<token_address, tx_hash>> \in st.processed_events
             THEN st
             ELSE [ known_tokens     |-> st.known_tokens \cup {token_address},
                    processed_events |-> st.processed_events \cup {<<token_address, tx_hash>>},
                    token_last_block |->
                        [t \in DOMAIN st.token_last_block \cup {token_address} |->
                            IF t = token_address THEN block_number
                            ELSE st.token_last_block[t]],
                    new_tokens       |-> Append(st.new_tokens, to_checksum_address(token_address)) ]
    ELSE st

WsMessage(st, log_data) ==
    IF Len(log_data.topics) >= 3 /\ log_data.topics[3] = my_address
    THEN LET token_address == lower(log_data.address)
             tx_hash       == log_data.transactionHash
             block_number  == int16(log_data.blockNumber)
         IN  IF <<token_address, tx_hash>> \in st.processed_events
             THEN st
             ELSE IF /\ token_address \in DOMAIN st.token_last_block
                     /\ block_number - st.token_last_block[token_address] < DUPLICATE_CHECK_BLOCKS
             THEN st
             ELSE [ known_tokens     |-> st.known_tokens \cup {token_address},
                    processed_events |-> st.processed_events \cup {<<token_address, tx_hash>>},
                    token_last_block |->
                        [t \in DOMAIN st.token_last_block \cup {token_address} |->
                            IF t = token_address THEN block_number
                            ELSE st.token_last_block[t]],
                    new_tokens       |-> Append(st.new_tokens, to_checksum_address(token_address)) ]
    ELSE st

\* ------------------------------------------------------------------------
\* Observation of one log: what the watcher knew before it and whether the
\* token was handed on
\* ------------------------------------------------------------------------
Decision(mode, before, after, token, tx, block, to) ==
    [ mode     |-> mode,
      key      |-> <<token, tx>>,
      block    |-> block,
      to_me    |-> to = my_address,
      seen     |-> <<token, tx>> \in before.processed_events,
      had_last |-> token \in DOMAIN before.token_last_block,
      last     |-> IF token \in DOMAIN before.token_last_block
                   THEN before.token_last_block[token] ELSE 0,
      emitted  |-> Len(after.new_tokens) > Len(before.new_tokens) ]

RECURSIVE ScanLogs(_, _)
ScanLogs(acc, logs) ==
    IF logs = << >> THEN acc
    ELSE LET log   == Head(logs)
             after == ScanLog(acc.st, log)
             d     == Decision("poll", acc.st, after, lower(log.address),
                               hex(log.transactionHash), log.blockNumber, log.topics[3])
         IN  ScanLogs([ st        |-> after,
                        events    |-> IF d.emitted THEN Append(acc.events, d.key)
                                      ELSE acc.events,
                        decisions |-> Append(acc.decisions, d) ],
                      Tail(logs))

\* the logs of a set of transfers, in chain order
LogsOf(S) == SelectSeq(TransferSeq, LAMBDA t : t \in S)

RECURSIVE PollLogs(_)
PollLogs(ts) ==
    IF ts = << >> THEN << >> ELSE << PollLog(Head(ts)) >> \o PollLogs(Tail(ts))

\* ------------------------------------------------------------------------
\* Init: TokenMonitor.__init__
\* ------------------------------------------------------------------------
WInit ==
    /\ known_tokens = {}
    /\ processed_events = {}
    /\ token_last_block = NoBlocks
    /\ last_block_scanned = 0
    /\ ws_connected = FALSE
    /\ pc = "start"
    /\ retry_count = 0
    /\ new_tokens = << >>
    /\ new_events = << >>
    /\ decisions = << >>
    /\ emit_count = [k \in EventKeys |-> 0]
    /\ scanned = {}
    /\ rescanned = FALSE
    /\ first_scanned = 0
    /\ regressed = 0
    /\ faults = {}

\* ------------------------------------------------------------------------
\* TokenMonitor.start_monitoring, and the two early returns of
\* monitor_loop_websocket (websockets not installed, WS_RPC_URL not set)
\* ------------------------------------------------------------------------
StartMonitoring ==
    /\ pc = "start"
    /\ \E ENABLE_WEBSOCKET \in BOOLEAN, websockets \in BOOLEAN, wss_url \in BOOLEAN :
          pc' = IF ENABLE_WEBSOCKET /\ websockets /\ wss_url
                THEN "ws_connect" ELSE "poll_scan"
    /\ UNCHANGED faults
    /\ UNCHANGED pvars
    /\ UNCHANGED xvars
    /\ UNCHANGED << known_tokens, processed_events, token_last_block, last_block_scanned,
                    ws_connected, retry_count, new_tokens, new_events, decisions,
                    emit_count, scanned, rescanned, first_scanned, regressed >>

\* ------------------------------------------------------------------------
\* TokenMonitor.scan_recent_blocks(num_blocks).  The gateway either raises
\* (block height read or log query) or answers the query; a query whose
\* fromBlock lies above its toBlock is answered with an error or with no
\* logs, depending on the node.
\* ------------------------------------------------------------------------
\* variant: last_block_scanned advances only when the scan found a token
scan_recent_blocks_OnMatch(num_blocks) ==
    \/ \* w3.eth.block_number or w3.eth.get_logs raises: except branch
       /\ new_tokens' = << >>
       /\ new_events' = << >>
       /\ decisions' = << >>
       /\ faults' = { "scan" }
       /\ UNCHANGED << known_tokens, processed_events, token_last_block,
                       last_block_scanned, scanned, rescanned, first_scanned, regressed >>
       /\ UNCHANGED block_read
    \/ \E current_block \in
            (IF regressed < MaxRegress THEN Max(0, last_block_scanned - MaxLag)
             ELSE last_block_scanned)..MaxBlock :
         LET start_block == Max(current_block - num_blocks, last_block_scanned + 1)
             range       == start_block..current_block
         IN  \E S \in SUBSET { t \in Transfers : t.block \in range } :
               /\ Cardinality(S) <= MaxBatch
               /\ LET logs == PollLogs(LogsOf(S))
                      r    == ScanLogs([ st |-> DetectionState, events |-> << >>,
                                         decisions |-> << >> ], logs)
                  IN  /\ known_tokens' = r.st.known_tokens
                      /\ processed_events' = r.st.processed_events
                      /\ token_last_block' = r.st.token_last_block
                      /\ new_tokens' = r.st.new_tokens
                      /\ new_events' = r.events
                      /\ decisions' = r.decisions
               /\ last_block_scanned' = IF new_tokens' # << >> THEN current_block
                                       ELSE last_block_scanned
               /\ block_read' = current_block
               /\ faults' = {}
               /\ scanned' = scanned \cup range
               /\ rescanned' = (rescanned \/ (range \cap scanned) # {})
               /\ first_scanned' = IF first_scanned = 0 /\ range # {}
                                   THEN start_block ELSE first_scanned
               /\ regressed' = regressed + (IF current_block < last_block_scanned THEN 1 ELSE 0)

scan_recent_blocks(num_blocks) ==
    \/ \* w3.eth.block_number or w3.eth.get_logs raises: except branch
       /\ new_tokens' = << >>
       /\ new_events' = << >>
       /\ decisions' = << >>
       /\ faults' = { "scan" }
       /\ UNCHANGED << known_tokens, processed_events, token_last_block,
                       last_block_scanned, scanned, rescanned, first_scanned, regressed >>
       /\ UNCHANGED block_read
    \/ \E current_block \in
            (IF regressed < MaxRegress THEN Max(0, last_block_scanned - MaxLag)
             ELSE last_block_scanned)..MaxBlock :
         LET start_block == Max(current_block - num_blocks, last_block_scanned + 1)
             range       == start_block..current_block
         IN  \E S \in SUBSET { t \in Transfers : t.block \in range } :
               /\ Cardinality(S) <= MaxBatch
               /\ LET logs == PollLogs(LogsOf(S))
                      r    == ScanLogs([ st |-> DetectionState, events |-> << >>,
                                         decisions |-> << >> ], logs)
                  IN  /\ known_tokens' = r.st.known_tokens
                      /\ processed_events' = r.st.processed_events
                      /\ token_last_block' = r.st.token_last_block
                      /\ new_tokens' = r.st.new_tokens
                      /\ new_events' = r.events
                      /\ decisions' = r.decisions
               /\ last_block_scanned' = current_block
               /\ block_read' = current_block
               /\ faults' = {}
               /\ scanned' = scanned \cup range
               /\ rescanned' = (rescanned \/ (range \cap scanned) # {})
               /\ first_scanned' = IF first_scanned = 0 /\ range # {}
                                   THEN start_block ELSE first_scanned
               /\ regressed' = regressed + (IF current_block < last_block_scanned THEN 1 ELSE 0)

\* ------------------------------------------------------------------------
\* TokenMonitor.monitor_loop_polling.  One cycle is: the scan, one
\* callback(token) per new token, then the reset of retry_count and the
\* sleep.  scan_recent_blocks catches every gateway error itself and each
\* callback is wrapped in its own try, so the except branch of the loop
\* (retry_count += 1) is entered by no gateway or handler failure.
\* ------------------------------------------------------------------------
PollScan ==
    /\ pc = "poll_scan"
    /\ scan_recent_blocks(MONITOR_INTERVAL)
    /\ pc' = IF new_tokens' # << >> THEN "poll_emit" ELSE "poll_sleep"
    /\ UNCHANGED pvars
    /\ UNCHANGED << svars, avars, tvars, ws_suppressed >>
    /\ UNCHANGED << ws_connected, retry_count, emit_count >>

\* variant: a handler that raises ends the for loop over new_tokens
Callback_AbortOnRaise(next_pc) ==
    /\ new_tokens # << >>
    /\ \E raised \in BOOLEAN :
          /\ emit_count' = [emit_count EXCEPT ![Head(new_events)] =
                               IF @ >= 1 THEN 2 ELSE 1]
          /\ new_tokens' = IF raised THEN << >> ELSE Tail(new_tokens)
          /\ new_events' = IF raised THEN << >> ELSE Tail(new_events)
          /\ pc' = IF raised \/ Tail(new_tokens) = << >> THEN next_pc ELSE pc
          /\ faults' = IF raised THEN faults \cup { "handler" } ELSE faults
    /\ UNCHANGED pvars
    /\ UNCHANGED xvars
    /\ UNCHANGED << known_tokens, processed_events, token_last_block, last_block_scanned,
                    ws_connected, retry_count, decisions,
                    scanned, rescanned, first_scanned, regressed >>

\* await callback(token): the handler returns or raises; both are absorbed
Callback(next_pc) ==
    /\ new_tokens # << >>
    /\ \E raised \in BOOLEAN :
          /\ emit_count' = [emit_count EXCEPT ![Head(new_events)] =
                               IF @ >= 1 THEN 2 ELSE 1]
          /\ new_tokens' = Tail(new_tokens)
          /\ new_events' = Tail(new_events)
          /\ pc' = IF Tail(new_tokens) = << >> THEN next_pc ELSE pc
          /\ faults' = IF raised THEN faults \cup { "handler" } ELSE faults
    /\ UNCHANGED pvars
    /\ UNCHANGED xvars
    /\ UNCHANGED << known_tokens, processed_events, token_last_block, last_block_scanned,
                    ws_connected, retry_count, decisions,
                    scanned, rescanned, first_scanned, regressed >>

PollEmit ==
    /\ pc = "poll_emit"
    /\ Callback("poll_sleep")

PollSleep ==
    /\ pc = "poll_sleep"
    /\ retry_count' = 0
    /\ pc' = "poll_scan"
    /\ decisions' = << >>
    /\ faults' = {}
    /\ UNCHANGED pvars
    /\ UNCHANGED xvars
    /\ UNCHANGED << known_tokens, processed_events, token_last_block, last_block_scanned,
                    ws_connected, new_tokens, new_events,
                    emit_count, scanned, rescanned, first_scanned, regressed >>

\* ------------------------------------------------------------------------
\* TokenMonitor.monitor_loop_websocket
\* ------------------------------------------------------------------------
\* websockets.connect and the eth_subscribe request
WsConnect ==
    /\ pc = "ws_connect"
    /\ \/ \* connected and subscribed
          /\ ws_connected' = TRUE
          /\ retry_count' = 0
          /\ pc' = "ws_recv"
          /\ faults' = {}
       \/ \* connect raises, or ws.send raises after retry_count was reset
          \E connected \in BOOLEAN :
            LET count == (IF connected THEN 0 ELSE retry_count) + 1 IN
            /\ ws_connected' = FALSE
            /\ faults' = { "connect" }
            /\ IF count >= max_retries
               THEN \* await self.monitor_loop_polling(callback); return
                    /\ retry_count' = 0
                    /\ pc' = "poll_scan"
               ELSE /\ retry_count' = count
                    /\ pc' = "ws_sleep"
    /\ UNCHANGED pvars
    /\ UNCHANGED xvars
    /\ UNCHANGED << known_tokens, processed_events, token_last_block, last_block_scanned,
                    new_tokens, new_events, decisions,
                    emit_count, scanned, rescanned, first_scanned, regressed >>

\* await asyncio.sleep(5) after a failed connection attempt
WsSleep ==
    /\ pc = "ws_sleep"
    /\ pc' = "ws_connect"
    /\ UNCHANGED faults
    /\ UNCHANGED pvars
    /\ UNCHANGED xvars
    /\ UNCHANGED << known_tokens, processed_events, token_last_block, last_block_scanned,
                    ws_connected, retry_count, new_tokens, new_events, decisions,
                    emit_count, scanned, rescanned, first_scanned, regressed >>

\* what the processing of one log notification does with the log of
\* transfer t
WsDecision(t, case) ==
    LET log_data == WsLog(t, case)
    IN  Decision("ws", DetectionState, WsMessage(DetectionState, log_data),
                 lower(log_data.address), log_data.transactionHash,
                 int16(log_data.blockNumber), log_data.topics[3])

WsRecv(t, case) ==
    LET after == WsMessage(DetectionState, WsLog(t, case))
        d     == WsDecision(t, case)
    IN  /\ pc = "ws_recv"
        /\ known_tokens' = after.known_tokens
        /\ processed_events' = after.processed_events
        /\ token_last_block' = after.token_last_block
        /\ new_tokens' = after.new_tokens
        /\ new_events' = IF d.emitted THEN << d.key >> ELSE << >>
        /\ decisions' = << d >>
        /\ pc' = IF after.new_tokens # << >> THEN "ws_handler" ELSE "ws_recv"
        /\ faults' = {}
        /\ UNCHANGED pvars
        /\ UNCHANGED << svars, avars, tvars, block_read >>
        /\ UNCHANGED << last_block_scanned, ws_connected, retry_count,
                        emit_count, scanned, rescanned, first_scanned, regressed >>

\* ws.recv() delivers a log notification
WsRecvLog ==
    \E t \in Transfers, case \in {"lower", "checksum"} :
       /\ WsRecv(t, case)
       /\ UNCHANGED ws_suppressed

\* ws.recv() times out after 60 s, or delivers a message that is no log
\* notification (the subscription confirmation): the loop goes on
WsRecvOther ==
    /\ pc = "ws_recv"
    /\ decisions' = << >>
    /\ faults' = {}
    /\ UNCHANGED pvars
    /\ UNCHANGED xvars
    /\ UNCHANGED << known_tokens, processed_events, token_last_block, last_block_scanned,
                    ws_connected, pc, retry_count, new_tokens, new_events,
                    emit_count, scanned, rescanned, first_scanned, regressed >>

\* ws.recv() or the message processing raises (connection closed, invalid
\* JSON): break, leave the connection block and connect again at once
WsRecvError ==
    /\ pc = "ws_recv"
    /\ pc' = "ws_connect"
    /\ faults' = { "recv" }
    /\ UNCHANGED pvars
    /\ UNCHANGED xvars
    /\ UNCHANGED << known_tokens, processed_events, token_last_block, last_block_scanned,
                    ws_connected, retry_count, new_tokens, new_events, decisions,
                    emit_count, scanned, rescanned, first_scanned, regressed >>

WsHandler ==
    /\ pc = "ws_handler"
    /\ Callback("ws_recv")

\* ------------------------------------------------------------------------
\* The Event Watcher
\* ------------------------------------------------------------------------
\* the pipeline at rest, under the shipped configuration
PIdle ==
    /\ safe_mode = TRUE
    /\ blacklist_tokens = { <<"zero", "lower">> }
    /\ whitelist_tokens = {}
    /\ pt_pc = "idle"
    /\ pt_token_address = <<"a", "checksum">>
    /\ is_safe = FALSE
    /\ reason = ""
    /\ balance = NoBalance
    /\ gas_ok = FALSE
    /\ liquidity_info = NoLiquidity
    /\ stages = << >>
    /\ reads = << >>
    /\ es_pc = "idle"
    /\ amount_in = 0
    /\ quote = None
    /\ swap_data = None
    /\ current_allowance = 0
    /\ signed_tx = NoTx
    /\ receipt = None
    /\ tx_count = 0
    /\ approve_pending = FALSE
    /\ es_trace = << >>
    /\ approve_calls = << >>
    /\ signed = 0
    /\ sent = << >>

\* sniper_sell.py at rest: SpecificTokenMonitor.__init__ under the shipped
\* LIQUIDITY_GROWTH_THRESHOLD
NoCheck == [ kind |-> "none" ]

SIdle ==
    /\ liquidity_growth_threshold = LIQUIDITY_GROWTH_THRESHOLD
    /\ has_liquidity_detected = FALSE
    /\ initial_liquidity = 0
    /\ current_liquidity = 0
    /\ max_liquidity_seen = 0
    /\ liquidity_check_count = 0
    /\ sn_check = NoCheck
    /\ sn_outcomes = << >>

\* an adapter nobody has called: AggregatorBase.__init__
NoCall == [ op |-> "none" ]

AIdle ==
    /\ ag_name = "0x"
    /\ ag_api_key = FALSE
    /\ ag_chain_id = 0
    /\ ag_call = NoCall
    /\ ag_result = None
    /\ ag_requests = 0

\* TokenMonitor.__init__, twice
NewDetectionState ==
    [ known_tokens     |-> {},
      processed_events |-> {},
      token_last_block |-> NoBlocks,
      new_tokens       |-> << >> ]

TIdle ==
    /\ poll_state = NewDetectionState
    /\ ws_state = NewDetectionState
    /\ fed = 0

OIdle ==
    /\ block_read = 0
    /\ ws_suppressed = {}

XIdle == SIdle /\ AIdle /\ TIdle /\ OIdle

Init == WInit /\ PIdle /\ XIdle

Next ==
    \/ StartMonitoring
    \/ PollScan
    \/ PollEmit
    \/ PollSleep
    \/ WsConnect
    \/ WsSleep
    \/ WsRecvLog
    \/ WsRecvOther
    \/ WsRecvError
    \/ WsHandler

Spec == Init /\ [][Next]_vars

\* The monitor coroutine is the only task of the event loop and each of its
\* awaits ends (sleep, recv with a 60 s timeout, the gateway's own timeouts),
\* so a step that stays possible is eventually taken.
SpecFair == Init /\ [][Next]_vars /\ WF_vars(Next)

\* ------------------------------------------------------------------------
\* The watcher that starts subscribed, with the transfers the subscription
\* loop passes over for the cooldown kept in ws_suppressed, on a chain of
\* FbMaxBlock blocks whose height, as the gateway reports it, does not go
\* back
\* ------------------------------------------------------------------------
FbStartMonitoring ==
    /\ StartMonitoring
    /\ pc' = "ws_connect"

FbWsRecvLog ==
    \E t \in Transfers, case \in {"lower", "checksum"} :
       /\ WsRecv(t, case)
       /\ ws_suppressed' =
             IF WsDecision(t, case).to_me /\ ~WsDecision(t, case).seen
                /\ ~WsDecision(t, case).emitted
             THEN ws_suppressed \cup { t } ELSE ws_suppressed
       /\ t.block <= FbMaxBlock

FbPollScan ==
    /\ PollScan
    /\ last_block_scanned' >= last_block_scanned
    /\ last_block_scanned' <= FbMaxBlock

NextFallback ==
    \/ FbStartMonitoring
    \/ FbPollScan
    \/ PollEmit
    \/ PollSleep
    \/ WsConnect
    \/ WsSleep
    \/ FbWsRecvLog
    \/ WsRecvOther
    \/ WsRecvError
    \/ WsHandler

SpecFallback == Init /\ [][NextFallback]_vars

\* positions inside monitor_loop_polling / inside an open subscription
PollPcs == { "poll_scan", "poll_emit", "poll_sleep" }

SubscribedPcs == { "ws_recv", "ws_handler" }

\* every position of the monitor coroutine; none of them is past the loops
WatcherPcs == { "start", "ws_connect", "ws_sleep", "ws_recv", "ws_handler",
                "poll_scan", "poll_emit", "poll_sleep" }

TypeOK ==
    /\ known_tokens \subseteq { <<t.token, "lower">> : t \in Transfers }
    /\ processed_events \subseteq EventKeys
    /\ DOMAIN token_last_block = known_tokens
    /\ last_block_scanned \in 0..MaxBlock
    /\ retry_count \in 0..max_retries
    /\ Len(new_tokens) = Len(new_events)

\* ------------------------------------------------------------------------
\* The gates used by process_token
\* ------------------------------------------------------------------------
\* the tokens the handler is called with (checksum addresses, as the
\* watcher passes them): the wrapped native asset, the zero address, others
PTokens == { <<"weth", "checksum">>, <<"zero", "checksum">>, <<"a", "checksum">> }

ListedSets == SUBSET { <<"zero", "lower">>, <<"a", "lower">> }

\* AutoSellBot._get_wrapped_native_token
get_wrapped_native_token == <<"weth", "checksum">>

zero_address == <<"zero", "lower">>

\* decimals() of the tokens held
TokenDecimals == { DEFAULT_DECIMALS - 1, DEFAULT_DECIMALS }

\* USD liquidity figures the oracle reports for a pair
LiquidityFigures == { 0, MIN_LIQUIDITY - 1000, MIN_LIQUIDITY, MIN_LIQUIDITY + 500 }

\* gwei gas prices the gateway reports
GasPrices == { MAX_GAS_PRICE - 1, MAX_GAS_PRICE, MAX_GAS_PRICE + 1 }

RECURSIVE Pow10(_)
Pow10(n) == IF n = 0 THEN 1 ELSE 10 * Pow10(n - 1)

MaxOf(S) == CHOOSE x \in S : \A y \in S : y <= x

\* SecurityChecker.is_in_whitelist
is_in_whitelist(token) ==
    IF whitelist_tokens = {} THEN TRUE ELSE lower(token) \in whitelist_tokens

\* SecurityChecker.is_in_blacklist
is_in_blacklist(token) == lower(token) \in blacklist_tokens

\* w3.is_address.  Two kinds of text are no address: "malformed" has not the
\* length of an address, "nothex" has the length and the 0x prefix of one
\* but digits that are not hexadecimal
is_address(token) == token[1] \notin { "malformed", "nothex" }

\* token_address.startswith('0x') and len(token_address) == 42
has_address_shape(token) == token[1] # "malformed"

\* one question to the outside world and its answer
Read(call, answer) == [ call |-> call, answer |-> answer ]

\* the contract reads validate_token makes: none when a list or the address
\* test rejects the token, totalSupply() only after decimals() has answered
ProbeReads(token, decimals, total_supply) ==
    IF lower(token) \in blacklist_tokens THEN << >>
    ELSE IF whitelist_tokens # {} /\ lower(token) \notin whitelist_tokens THEN << >>
    ELSE IF token[1] = "malformed" THEN << >>
    ELSE IF decimals = Raises THEN << Read("decimals", Raises) >>
    ELSE << Read("decimals", decimals), Read("totalSupply", total_supply) >>

\* variant: the whitelist is tested before the blacklist
validate_token_WhitelistFirst(token, decimals, total_supply) ==
    IF ~(IF whitelist_tokens = {} THEN TRUE ELSE lower(token) \in whitelist_tokens)
    THEN << FALSE, "Token not in whitelist" >>
    ELSE IF lower(token) \in blacklist_tokens THEN << FALSE, "Token in blacklist" >>
    ELSE IF token[1] = "malformed" THEN << FALSE, "Invalid token address" >>
    ELSE IF decimals = Raises \/ total_supply = Raises THEN << FALSE, "Contract error" >>
    ELSE IF total_supply = 0 THEN << FALSE, "Zero total supply" >>
    ELSE << TRUE, "Token valid" >>

\* variant: a total supply of zero is not rejected
validate_token_AnySupply(token, decimals, total_supply) ==
    IF lower(token) \in blacklist_tokens THEN << FALSE, "Token in blacklist" >>
    ELSE IF ~(IF whitelist_tokens = {} THEN TRUE ELSE lower(token) \in whitelist_tokens)
    THEN << FALSE, "Token not in whitelist" >>
    ELSE IF token[1] = "malformed" THEN << FALSE, "Invalid token address" >>
    ELSE IF decimals = Raises \/ total_supply = Raises THEN << FALSE, "Contract error" >>
    ELSE << TRUE, "Token valid" >>

\* SecurityChecker.validate_token; decimals and total_supply are the answers
\* of the two contract reads (Raises when the call raises)
validate_token(token, decimals, total_supply) ==
    IF is_in_blacklist(token) THEN << FALSE, "Token in blacklist" >>
    ELSE IF ~is_in_whitelist(token) THEN << FALSE, "Token not in whitelist" >>
    ELSE IF ~is_address(token) THEN << FALSE, "Invalid token address" >>
    ELSE IF decimals = Raises \/ total_supply = Raises THEN << FALSE, "Contract error" >>
    ELSE IF total_supply = 0 THEN << FALSE, "Zero total supply" >>
    ELSE << TRUE, "Token valid" >>

\* variant: a price equal to the ceiling is rejected
check_gas_price_AtCeiling(gas_price_gwei) ==
    IF gas_price_gwei = Raises THEN << FALSE, 0 >>
    ELSE IF gas_price_gwei >= MAX_GAS_PRICE THEN << FALSE, gas_price_gwei >>
    ELSE << TRUE, gas_price_gwei >>

\* SecurityChecker.check_gas_price; gas_price_gwei is the gateway's answer
check_gas_price(gas_price_gwei) ==
    IF gas_price_gwei = Raises THEN << FALSE, 0 >>
    ELSE IF gas_price_gwei > MAX_GAS_PRICE THEN << FALSE, gas_price_gwei >>
    ELSE << TRUE, gas_price_gwei >>

\* LiquidityChecker.check_liquidity_dexscreener; resp is the oracle's answer
\* [status, pairs], status Raises when the request raises or times out
check_liquidity_dexscreener(token, resp) ==
    IF lower(token) = zero_address THEN NoLiquidity
    ELSE IF ~has_address_shape(token) THEN NoLiquidity
    ELSE IF resp.status = Raises THEN NoLiquidity
    ELSE IF resp.status = 200
         THEN IF resp.pairs = {} THEN NoLiquidity
              ELSE [ has_liquidity |-> MaxOf(resp.pairs) > 0,
                     liquidity_usd |-> MaxOf(resp.pairs) ]
    ELSE NoLiquidity

\* the oracle requests check_liquidity_dexscreener sends, with the answer
OracleReads(token, resp) ==
    IF lower(token) = zero_address THEN << >>
    ELSE IF ~has_address_shape(token) THEN << >>
    ELSE << Read("dexscreener", resp) >>

\* variant: the minimum itself is not enough
is_tradeable_Strict(info) ==
    info.has_liquidity /\ info.liquidity_usd > MIN_LIQUIDITY

\* LiquidityChecker.is_tradeable
is_tradeable(info) ==
    info.has_liquidity /\ info.liquidity_usd >= MIN_LIQUIDITY

\* answers of the liquidity oracle
OracleResponses ==
    { [ status |-> Raises, pairs |-> {} ], [ status |-> 500, pairs |-> {} ] }
    \cup { [ status |-> 200, pairs |-> P ] : P \in SUBSET LiquidityFigures }

\* int(balance * 10 ** decimals)
amount_wei(bal, decimals) ==
    IF decimals >= bal.decimals
    THEN bal.raw * Pow10(decimals - bal.decimals)
    ELSE bal.raw \div Pow10(bal.decimals - decimals)

\* ------------------------------------------------------------------------
\* AutoSellBot.process_token, stage by stage.  Every stage sits inside the
\* try of process_token: a read that raises ends the call like a rejection.
\* ------------------------------------------------------------------------
Stage(name, passed) == [ stage |-> name, passed |-> passed ]

\* the locals of a call that has not reached the orchestrator
SwapIdle ==
    /\ es_pc' = "idle"
    /\ amount_in' = 0
    /\ quote' = None
    /\ swap_data' = None
    /\ current_allowance' = 0
    /\ signed_tx' = NoTx
    /\ receipt' = None
    /\ tx_count' = 0
    /\ approve_pending' = FALSE
    /\ es_trace' = << >>
    /\ approve_calls' = << >>
    /\ signed' = 0
    /\ sent' = << >>

SwapUnchanged ==
    UNCHANGED << es_pc, amount_in, quote, swap_data, current_allowance, signed_tx,
                 receipt, tx_count, approve_pending, es_trace, approve_calls, signed, sent >>

\* process_token(token_address): a new call with fresh locals; step 0: skip
\* the wrapped native asset
process_token(token) ==
    /\ LET native_token == get_wrapped_native_token
           skip         == lower(token) = lower(native_token)
       IN  /\ pt_token_address' = token
           /\ stages' = << Stage("native", ~skip) >>
           /\ pt_pc' = IF skip THEN "done"
                       ELSE IF safe_mode THEN "security" ELSE "balance"
    /\ is_safe' = FALSE
    /\ reason' = ""
    /\ balance' = NoBalance
    /\ gas_ok' = FALSE
    /\ liquidity_info' = NoLiquidity
    /\ reads' = << >>
    /\ SwapIdle
    /\ UNCHANGED << safe_mode, blacklist_tokens, whitelist_tokens >>

\* the handler is called with a token, one call after the other
PT_Native ==
    /\ pt_pc \in { "idle", "done" }
    /\ \E token \in PTokens : process_token(token)
    /\ UNCHANGED wvars
    /\ UNCHANGED xvars

\* step 1 (safe mode only): security_checker.validate_token
PT_Security ==
    /\ pt_pc = "security"
    /\ \E decimals \in TokenDecimals \cup { Raises }, total_supply \in { Raises, 0, 1 } :
         LET r == validate_token(pt_token_address, decimals, total_supply) IN
         /\ is_safe' = r[1]
         /\ reason' = r[2]
         /\ reads' = ProbeReads(pt_token_address, decimals, total_supply)
         /\ stages' = Append(stages, Stage("security", r[1]))
         /\ pt_pc' = IF ~r[1] THEN "done" ELSE "balance"
    /\ UNCHANGED << safe_mode, blacklist_tokens, whitelist_tokens, pt_token_address,
                    balance, gas_ok, liquidity_info >>
    /\ SwapUnchanged
    /\ UNCHANGED wvars
    /\ UNCHANGED xvars

\* variant: a zero balance is not skipped
PT_Balance_NoSkip ==
    /\ pt_pc = "balance"
    /\ \/ /\ balance' = [ raw |-> Raises, decimals |-> 0 ]
          /\ stages' = Append(stages, Stage("balance", FALSE))
          /\ pt_pc' = "done"
       \/ \E raw \in 0..MaxBalance, decimals \in TokenDecimals :
            /\ balance' = [ raw |-> raw, decimals |-> decimals ]
            /\ stages' = Append(stages, Stage("balance", TRUE))
            /\ pt_pc' = "gas"
    /\ UNCHANGED << safe_mode, blacklist_tokens, whitelist_tokens, pt_token_address,
                    is_safe, gas_ok, liquidity_info >>
    /\ SwapUnchanged
    /\ UNCHANGED reason
    /\ reads' = << >>
    /\ UNCHANGED wvars
    /\ UNCHANGED xvars

\* step 2: w3_manager.get_balance; skip when the balance is not positive
PT_Balance ==
    /\ pt_pc = "balance"
    /\ \/ \* balanceOf() or decimals() raises
          /\ balance' = [ raw |-> Raises, decimals |-> 0 ]
          /\ stages' = Append(stages, Stage("balance", FALSE))
          /\ pt_pc' = "done"
       \/ \E raw \in 0..MaxBalance, decimals \in TokenDecimals :
            /\ balance' = [ raw |-> raw, decimals |-> decimals ]
            /\ stages' = Append(stages, Stage("balance", ~(raw <= 0)))
            /\ pt_pc' = IF raw <= 0 THEN "done" ELSE "gas"
    /\ UNCHANGED << safe_mode, blacklist_tokens, whitelist_tokens, pt_token_address,
                    is_safe, gas_ok, liquidity_info >>
    /\ SwapUnchanged
    /\ UNCHANGED reason
    /\ reads' = << >>
    /\ UNCHANGED wvars
    /\ UNCHANGED xvars

\* step 3: security_checker.check_gas_price; its verdict counts in safe mode
PT_Gas ==
    /\ pt_pc = "gas"
    /\ \E gas_price_gwei \in GasPrices \cup { Raises } :
         LET r == check_gas_price(gas_price_gwei) IN
         /\ gas_ok' = r[1]
         /\ reads' = << Read("gas_price", gas_price_gwei) >>
         /\ stages' = Append(stages, Stage("gas", ~(~r[1] /\ safe_mode)))
         /\ pt_pc' = IF ~r[1] /\ safe_mode THEN "done" ELSE "liquidity"
    /\ UNCHANGED << safe_mode, blacklist_tokens, whitelist_tokens, pt_token_address,
                    is_safe, balance, liquidity_info >>
    /\ SwapUnchanged
    /\ UNCHANGED reason
    /\ UNCHANGED wvars
    /\ UNCHANGED xvars

\* step 4: liquidity_checker.check_liquidity and is_tradeable
PT_Liquidity ==
    /\ pt_pc = "liquidity"
    /\ \E resp \in OracleResponses :
         LET info == check_liquidity_dexscreener(pt_token_address, resp) IN
         /\ liquidity_info' = info
         /\ reads' = OracleReads(pt_token_address, resp)
         /\ stages' = Append(stages, Stage("liquidity", is_tradeable(info)))
         /\ pt_pc' = IF ~is_tradeable(info) THEN "done" ELSE "amount"
    /\ UNCHANGED << safe_mode, blacklist_tokens, whitelist_tokens, pt_token_address,
                    is_safe, balance, gas_ok >>
    /\ SwapUnchanged
    /\ UNCHANGED reason
    /\ UNCHANGED wvars
    /\ UNCHANGED xvars

\* step 5: decimals lookup (18 when it fails), amount conversion and the
\* call of swap_executor.execute_swap
PT_Swap ==
    /\ pt_pc = "amount"
    /\ \E decimals_read \in { balance.decimals, Raises } :
         LET decimals == IF decimals_read = Raises THEN DEFAULT_DECIMALS ELSE decimals_read
         IN  amount_in' = amount_wei(balance, decimals)
    /\ stages' = Append(stages, Stage("swap", TRUE))
    /\ pt_pc' = "swap"
    /\ es_pc' = "Quoting"
    /\ es_trace' = << "Quoting" >>
    /\ UNCHANGED << safe_mode, blacklist_tokens, whitelist_tokens, pt_token_address,
                    is_safe, balance, gas_ok, liquidity_info >>
    /\ UNCHANGED << quote, swap_data, current_allowance, signed_tx, receipt, tx_count,
                    approve_pending, approve_calls, signed, sent >>
    /\ UNCHANGED reason
    /\ reads' = << >>
    /\ UNCHANGED wvars
    /\ UNCHANGED xvars

\* execute_swap has returned: the outcome is logged and the call ends
PT_Outcome ==
    /\ pt_pc = "swap"
    /\ es_pc \in { "Success", "Reverted", "Failed" }
    /\ pt_pc' = "done"
    /\ UNCHANGED << safe_mode, blacklist_tokens, whitelist_tokens, pt_token_address,
                    is_safe, balance, gas_ok, liquidity_info, stages >>
    /\ SwapUnchanged
    /\ UNCHANGED reason
    /\ UNCHANGED reads
    /\ UNCHANGED wvars
    /\ UNCHANGED xvars

\* ------------------------------------------------------------------------
\* SwapExecutor.execute_swap.  es_pc names the state of the attempt:
\* Quoting, BuildingTx, CheckingAllowance, Approving, Signing, Submitting,
\* Confirming, then Success, Reverted or Failed.
\* ------------------------------------------------------------------------
\* variant: the test is "== {}" instead of "not x"
Falsy_OnlyEmpty(x) == x = EmptyDict

\* Python "not x" of an Optional[Dict]
Falsy(x) == x \in { None, EmptyDict }

\* dict.get(key), "None" when the key is missing
Get(d, key) == IF key \in DOMAIN d THEN d[key] ELSE "None"

\* answers of the 0x endpoint [status, data], status Raises when the
\* request raises or times out
QuoteResponses ==
    { [ status |-> Raises, data |-> EmptyDict ],
      [ status |-> 400, data |-> EmptyDict ],
      [ status |-> 200, data |-> EmptyDict ],
      [ status |-> 200, data |-> [ kind |-> "dict", buyAmount |-> 500 ] ] }

SwapResponses ==
    { [ status |-> Raises, data |-> EmptyDict ],
      [ status |-> 429, data |-> EmptyDict ],
      [ status |-> 200, data |-> EmptyDict ] }
    \cup { [ status |-> 200,
             data |-> [ kind |-> "dict", allowanceTarget |-> a, transaction |-> t ] ] :
             a \in { "spender", "None" }, t \in { "to", "no_to" } }

\* the route providers queried by an attempt: get_0x_quote and
\* get_0x_swap_tx both request api.0x.org, and nothing else is requested
ProvidersTried == IF es_trace = << >> THEN << >> ELSE << "0x" >>

\* SwapExecutor.get_0x_quote
get_0x_quote(resp) ==
    IF resp.status = Raises THEN None
    ELSE IF resp.status = 200 THEN resp.data ELSE None

\* SwapExecutor.get_0x_swap_tx
get_0x_swap_tx(resp) ==
    IF resp.status = Raises THEN None
    ELSE IF resp.status = 200 THEN resp.data ELSE None

\* SwapExecutor.check_allowance: 0 when the spender is no address or the
\* allowance() read raises
check_allowance(spender, allowance) ==
    IF spender = "None" THEN 0
    ELSE IF allowance = Raises THEN 0
    ELSE allowance

\* "if current_allowance < amount_in"
NeedsApproval(allowance, amount) == allowance < amount

Terminal == { "Success", "Reverted", "Failed" }

Enter(state) ==
    /\ es_pc' = state
    /\ es_trace' = Append(es_trace, state)

PTUnchanged ==
    UNCHANGED << safe_mode, blacklist_tokens, whitelist_tokens, pt_pc, pt_token_address,
                 is_safe, reason, balance, gas_ok, liquidity_info, stages, reads >>

\* 1. get_0x_quote; "if not quote: return None"
ES_Quote ==
    /\ es_pc = "Quoting"
    /\ \E resp \in QuoteResponses :
         /\ quote' = get_0x_quote(resp)
         /\ Enter(IF Falsy(get_0x_quote(resp)) THEN "Failed" ELSE "BuildingTx")
    /\ UNCHANGED << amount_in, swap_data, current_allowance, signed_tx, tx_count,
                    approve_pending, approve_calls, signed, sent >>
    /\ UNCHANGED receipt
    /\ PTUnchanged
    /\ UNCHANGED wvars
    /\ UNCHANGED xvars

\* 2. get_0x_swap_tx; "if not swap_data: return None"
ES_SwapData ==
    /\ es_pc = "BuildingTx"
    /\ \E resp \in SwapResponses :
         /\ swap_data' = get_0x_swap_tx(resp)
         /\ Enter(IF Falsy(get_0x_swap_tx(resp)) THEN "Failed" ELSE "CheckingAllowance")
    /\ UNCHANGED << amount_in, quote, current_allowance, signed_tx, tx_count,
                    approve_pending, approve_calls, signed, sent >>
    /\ UNCHANGED receipt
    /\ PTUnchanged
    /\ UNCHANGED wvars
    /\ UNCHANGED xvars

\* variant: an allowance read that raises ends the attempt
ES_CheckAllowance_FailOnError ==
    /\ es_pc = "CheckingAllowance"
    /\ \E allowance \in { Raises, 0, amount_in - 1, amount_in, amount_in + 1 } :
         LET allowance_target == Get(swap_data, "allowanceTarget")
             a == check_allowance(allowance_target, allowance)
             raised == allowance_target = "None" \/ allowance = Raises
         IN
         /\ current_allowance' = a
         /\ reads' = << Read("allowance", IF allowance_target = "None" THEN Raises
                                          ELSE allowance) >>
         /\ Enter(IF raised THEN "Failed"
                  ELSE IF NeedsApproval(a, amount_in) THEN "Approving" ELSE "Signing")
    /\ UNCHANGED << amount_in, quote, swap_data, signed_tx, tx_count,
                    approve_pending, approve_calls, signed, sent >>
    /\ UNCHANGED receipt
    /\ UNCHANGED << safe_mode, blacklist_tokens, whitelist_tokens, pt_pc, pt_token_address,
                    is_safe, reason, balance, gas_ok, liquidity_info, stages >>
    /\ UNCHANGED wvars
    /\ UNCHANGED xvars

\* 3. check_allowance(token_in, allowance_target); "if current_allowance <
\* amount_in" decides whether approve_token is called
ES_CheckAllowance ==
    /\ es_pc = "CheckingAllowance"
    /\ \E allowance \in { Raises, 0, amount_in - 1, amount_in, amount_in + 1 } :
         LET allowance_target == Get(swap_data, "allowanceTarget")
             a == check_allowance(allowance_target, allowance)
         IN
         /\ current_allowance' = a
         /\ reads' = << Read("allowance", IF allowance_target = "None" THEN Raises
                                          ELSE allowance) >>
         /\ Enter(IF NeedsApproval(a, amount_in) THEN "Approving" ELSE "Signing")
    /\ UNCHANGED << amount_in, quote, swap_data, signed_tx, tx_count,
                    approve_pending, approve_calls, signed, sent >>
    /\ UNCHANGED receipt
    /\ UNCHANGED << safe_mode, blacklist_tokens, whitelist_tokens, pt_pc, pt_token_address,
                    is_safe, reason, balance, gas_ok, liquidity_info, stages >>
    /\ UNCHANGED wvars
    /\ UNCHANGED xvars

\* approve_token(token_in, allowance_target, amount_in * 2).  It returns the
\* hash, or None when building, sending or confirming raises; execute_swap
\* does not look at what it returns.
ES_Approve ==
    /\ es_pc = "Approving"
    /\ \E outcome \in { "build_error", "send_error", "timeout", "confirmed" } :
         /\ Get(swap_data, "allowanceTarget") = "None" => outcome = "build_error"
         /\ approve_calls' = Append(approve_calls,
                                    [ amount |-> amount_in * 2, outcome |-> outcome ])
         /\ sent' = IF outcome \in { "timeout", "confirmed" }
                    THEN Append(sent, [ kind |-> "approve", nonce |-> tx_count ])
                    ELSE sent
         /\ tx_count' = IF outcome = "confirmed" THEN tx_count + 1 ELSE tx_count
         /\ approve_pending' = (outcome = "timeout")
    /\ Enter("Signing")
    /\ UNCHANGED << amount_in, quote, swap_data, current_allowance, signed_tx, signed >>
    /\ UNCHANGED receipt
    /\ reads' = << >>
    /\ UNCHANGED << safe_mode, blacklist_tokens, whitelist_tokens, pt_pc, pt_token_address,
                    is_safe, reason, balance, gas_ok, liquidity_info, stages >>
    /\ UNCHANGED wvars
    /\ UNCHANGED xvars

\* 4./5. build tx_dict (gas price and nonce are read from the gateway) and
\* sign it.  A pending approve transaction may have been mined by now.
ES_Sign ==
    /\ es_pc = "Signing"
    /\ \/ \* tx_data['to'] is missing, or a gateway read raises
          /\ Enter("Failed")
          /\ UNCHANGED << signed_tx, signed, tx_count, approve_pending >>
       \/ /\ Get(swap_data, "transaction") = "to"
          /\ \E mined \in BOOLEAN :
               LET count == IF approve_pending /\ mined THEN tx_count + 1 ELSE tx_count IN
               /\ tx_count' = count
               /\ approve_pending' = (approve_pending /\ ~mined)
               /\ signed_tx' = [ nonce |-> count ]
          /\ signed' = signed + 1
          /\ Enter("Submitting")
    /\ UNCHANGED << amount_in, quote, swap_data, current_allowance, approve_calls, sent >>
    /\ UNCHANGED receipt
    /\ PTUnchanged
    /\ UNCHANGED wvars
    /\ UNCHANGED xvars

\* 6. send_raw_transaction
ES_Submit ==
    /\ es_pc = "Submitting"
    /\ \/ \* the node refuses the transaction
          /\ Enter("Failed")
          /\ UNCHANGED sent
       \/ /\ sent' = Append(sent, [ kind |-> "swap", nonce |-> signed_tx.nonce ])
          /\ Enter("Confirming")
    /\ UNCHANGED << amount_in, quote, swap_data, current_allowance, signed_tx, tx_count,
                    approve_pending, approve_calls, signed >>
    /\ UNCHANGED receipt
    /\ PTUnchanged
    /\ UNCHANGED wvars
    /\ UNCHANGED xvars

\* variant: a reverted swap is signed and sent again
ES_Confirm_Retry ==
    /\ es_pc = "Confirming"
    /\ \E status \in { Raises, 0, 1 } :
         /\ receipt' = IF status = Raises THEN None ELSE [ kind |-> "dict", status |-> status ]
         /\ Enter(IF status = Raises THEN "Failed"
                  ELSE IF status = 1 THEN "Success" ELSE "Signing")
    /\ UNCHANGED << amount_in, quote, swap_data, current_allowance, signed_tx, tx_count,
                    approve_pending, approve_calls, signed, sent >>
    /\ PTUnchanged
    /\ UNCHANGED wvars
    /\ UNCHANGED xvars

\* variant: any receipt counts as success
ES_Confirm_AnyReceipt ==
    /\ es_pc = "Confirming"
    /\ \E status \in { Raises, 0, 1 } :
         /\ receipt' = IF status = Raises THEN None ELSE [ kind |-> "dict", status |-> status ]
         /\ Enter(IF status = Raises THEN "Failed" ELSE "Success")
    /\ UNCHANGED << amount_in, quote, swap_data, current_allowance, signed_tx, tx_count,
                    approve_pending, approve_calls, signed, sent >>
    /\ PTUnchanged
    /\ UNCHANGED wvars
    /\ UNCHANGED xvars

\* 7. wait_for_transaction_receipt(tx_hash, timeout=120) and the status test
ES_Confirm ==
    /\ es_pc = "Confirming"
    /\ \E status \in { Raises, 0, 1 } :
         /\ receipt' = IF status = Raises THEN None ELSE [ kind |-> "dict", status |-> status ]
         /\ Enter(IF status = Raises THEN "Failed"
                  ELSE IF status = 1 THEN "Success" ELSE "Reverted")
    /\ UNCHANGED << amount_in, quote, swap_data, current_allowance, signed_tx, tx_count,
                    approve_pending, approve_calls, signed, sent >>
    /\ PTUnchanged
    /\ UNCHANGED wvars
    /\ UNCHANGED xvars

\* ------------------------------------------------------------------------
\* The Pipeline Coordinator with the Swap Orchestrator
\* ------------------------------------------------------------------------
\* Config.__init__: the configuration is read once
PInit ==
    /\ safe_mode \in BOOLEAN
    /\ blacklist_tokens \in ListedSets
    /\ whitelist_tokens \in ListedSets
    /\ pt_pc = "idle"
    /\ pt_token_address = <<"a", "checksum">>
    /\ is_safe = FALSE
    /\ reason = ""
    /\ balance = NoBalance
    /\ gas_ok = FALSE
    /\ liquidity_info = NoLiquidity
    /\ stages = << >>
    /\ reads = << >>
    /\ es_pc = "idle"
    /\ amount_in = 0
    /\ quote = None
    /\ swap_data = None
    /\ current_allowance = 0
    /\ signed_tx = NoTx
    /\ receipt = None
    /\ tx_count = 0
    /\ approve_pending = FALSE
    /\ es_trace = << >>
    /\ approve_calls = << >>
    /\ signed = 0
    /\ sent = << >>

InitPipeline == WInit /\ PInit /\ XIdle

NextPipeline ==
    \/ PT_Native
    \/ PT_Security
    \/ PT_Balance
    \/ PT_Gas
    \/ PT_Liquidity
    \/ PT_Swap
    \/ PT_Outcome
    \/ ES_Quote
    \/ ES_SwapData
    \/ ES_CheckAllowance
    \/ ES_Approve
    \/ ES_Sign
    \/ ES_Submit
    \/ ES_Confirm

SpecPipeline == InitPipeline /\ [][NextPipeline]_vars

\* ------------------------------------------------------------------------
\* The Security Gate on its own: validate_token applied to addresses in
\* every spelling, under every configuration of the two lists
\* ------------------------------------------------------------------------
Spellings == { "checksum", "lower", "upper" }

GateTokens == { << digits, spelling >> :
                  digits \in { "a", "zero", "malformed" }, spelling \in Spellings }

SG_Validate ==
    /\ \E token \in GateTokens,
          decimals \in TokenDecimals \cup { Raises }, total_supply \in { Raises, 0, 1 } :
         LET r == validate_token(token, decimals, total_supply) IN
         /\ pt_token_address' = token
         /\ is_safe' = r[1]
         /\ reason' = r[2]
         /\ reads' = ProbeReads(token, decimals, total_supply)
         /\ stages' = << Stage("security", r[1]) >>
    /\ pt_pc' = "done"
    /\ UNCHANGED << safe_mode, blacklist_tokens, whitelist_tokens,
                    balance, gas_ok, liquidity_info >>
    /\ SwapUnchanged
    /\ UNCHANGED wvars
    /\ UNCHANGED xvars

NextGate == SG_Validate

SpecGate == InitPipeline /\ [][NextGate]_vars

\* ------------------------------------------------------------------------
\* The liquidity check on its own: check_liquidity applied to addresses and
\* to texts that are no address, under every answer of the oracle
\* ------------------------------------------------------------------------
OracleTokens == { << digits, spelling >> :
                    digits \in { "a", "zero", "malformed", "nothex" },
                    spelling \in Spellings }

CL_Check ==
    /\ \E token \in OracleTokens, resp \in OracleResponses :
         LET info == check_liquidity_dexscreener(token, resp) IN
         /\ pt_token_address' = token
         /\ liquidity_info' = info
         /\ reads' = OracleReads(token, resp)
         /\ stages' = << Stage("liquidity", is_tradeable(info)) >>
    /\ pt_pc' = "done"
    /\ UNCHANGED << safe_mode, blacklist_tokens, whitelist_tokens,
                    is_safe, reason, balance, gas_ok >>
    /\ SwapUnchanged
    /\ UNCHANGED wvars
    /\ UNCHANGED xvars

NextOracle == CL_Check

SpecOracle == InitPipeline /\ [][NextOracle]_vars

\* ------------------------------------------------------------------------
\* sniper_sell.py: SpecificTokenMonitor.  monitor_loop calls check_and_sell
\* every CHECK_INTERVAL seconds; one call is one step.
\* ------------------------------------------------------------------------
TARGET_TOKEN == << "target", "lower" >>

\* LIQUIDITY_GROWTH_THRESHOLD as the operator may set it: 0.5, 1.0, 1.5, 2.0
GrowthThresholds == { 5, 10, 15, 20 }

\* USD liquidity figures the oracle reports for the target token
SniperFigures == { 0, MIN_LIQUIDITY_USD - 500, MIN_LIQUIDITY_USD,
                   MIN_LIQUIDITY_USD + 500, 2 * MIN_LIQUIDITY_USD }

SniperResponses ==
    { [ status |-> Raises, pairs |-> {} ], [ status |-> 200, pairs |-> {} ] }
    \cup { [ status |-> 200, pairs |-> { usd } ] : usd \in SniperFigures }

\* sniper_sell.LiquidityChecker.is_tradeable
sniper_is_tradeable(info) ==
    info.has_liquidity /\ info.liquidity_usd >= MIN_LIQUIDITY_USD

\* variant: a threshold of exactly 1.0 waits for growth
growth_gate_WaitAtOne(first, current, initial, threshold) ==
    IF first THEN ~(threshold >= 10)
    ELSE ~(IF initial > 0 THEN current * 10 < threshold * initial ELSE 0 < threshold)

\* whether check_and_sell goes on to the sale: on the first detection
\* unless "liquidity_growth_threshold > 1.0", later unless
\* "growth_ratio < liquidity_growth_threshold", with growth_ratio =
\* current_liquidity / initial_liquidity (0 when initial_liquidity is 0);
\* threshold is in tenths
growth_gate(first, current, initial, threshold) ==
    IF first THEN ~(threshold > 10)
    ELSE ~(IF initial > 0 THEN current * 10 < threshold * initial ELSE 0 < threshold)

\* variant: every check that finds tradeable liquidity takes its figure as
\* the new baseline
record_initial_Latest(first, current) == current

\* initial_liquidity after a check that found tradeable liquidity: the
\* figure of the first such check ("if not self.has_liquidity_detected"),
\* left alone by the later ones
record_initial(first, current) == IF first THEN current ELSE initial_liquidity

\* how SwapExecutor.execute_swap ends: None after a failure or a reverted
\* transaction, the hash after a confirmed one
SwapOutcomes == { "failed", "reverted", "succeeded" }

\* variant: no further attempt once a swap has succeeded
start_attempt_Once(selling, total_supply, amount) ==
    /\ selling /\ ~(total_supply <= 0) /\ ~(amount <= 0)
    /\ \A i \in DOMAIN sn_outcomes : sn_outcomes[i] # "succeeded"

\* whether a check that goes on to the sale reaches execute_swap: not after
\* "if total_supply <= 0: return" or "if amount_wei <= 0: return"
start_attempt(selling, total_supply, amount) ==
    selling /\ ~(total_supply <= 0) /\ ~(amount <= 0)

\* what a check_and_sell call saw and did
Check(bal, info, first, selling, total_supply, amount, swap) ==
    [ kind |-> "check", balance |-> bal, info |-> info, first |-> first,
      selling |-> selling, total_supply |-> total_supply, amount_wei |-> amount,
      swap |-> swap ]

\* SpecificTokenMonitor.check_and_sell.  get_balance, get_token_total_supply
\* and get_balance_wei answer 0 when their read raises.
check_and_sell ==
    /\ liquidity_check_count < MaxChecks
    /\ \E bal \in { 0, 1 }, resp \in SniperResponses,
          total_supply \in { 0, 1 }, amount \in { 0, 1 } :
         LET info    == check_liquidity_dexscreener(TARGET_TOKEN, resp)
             current == info.liquidity_usd
             first   == ~has_liquidity_detected
         IN
         IF bal <= 0
         THEN /\ sn_check' = Check(bal, NoLiquidity, first, FALSE, 0, 0, FALSE)
              /\ UNCHANGED << has_liquidity_detected, initial_liquidity,
                              current_liquidity, max_liquidity_seen,
                              liquidity_check_count, sn_outcomes >>
         ELSE IF ~sniper_is_tradeable(info)
         THEN /\ sn_check' = Check(bal, info, first, FALSE, 0, 0, FALSE)
              /\ UNCHANGED << has_liquidity_detected, initial_liquidity,
                              current_liquidity, max_liquidity_seen,
                              liquidity_check_count, sn_outcomes >>
         ELSE LET initial == record_initial(first, current)
                  selling == growth_gate(first, current, initial,
                                         liquidity_growth_threshold)
                  \* the sale: total supply, exact balance, execute_swap
                  swap    == start_attempt(selling, total_supply, amount)
              IN  /\ has_liquidity_detected' = TRUE
                  /\ initial_liquidity' = initial
                  /\ current_liquidity' = current
                  /\ max_liquidity_seen' = IF first THEN current
                                           ELSE Max(max_liquidity_seen, current)
                  /\ liquidity_check_count' = IF first THEN 1
                                              ELSE liquidity_check_count + 1
                  /\ sn_check' = Check(bal, info, first, selling,
                                       IF selling THEN total_supply ELSE 0,
                                       IF selling /\ total_supply > 0 THEN amount ELSE 0,
                                       swap)
                  /\ \E outcome \in SwapOutcomes :
                        sn_outcomes' = IF swap THEN Append(sn_outcomes, outcome)
                                       ELSE sn_outcomes
    /\ UNCHANGED liquidity_growth_threshold
    /\ UNCHANGED << wvars, pvars, avars, tvars, ovars >>

\* Config.__init__ and SpecificTokenMonitor.__init__
SInit ==
    /\ liquidity_growth_threshold \in GrowthThresholds
    /\ has_liquidity_detected = FALSE
    /\ initial_liquidity = 0
    /\ current_liquidity = 0
    /\ max_liquidity_seen = 0
    /\ liquidity_check_count = 0
    /\ sn_check = NoCheck
    /\ sn_outcomes = << >>

InitSniper == WInit /\ PIdle /\ SInit /\ AIdle /\ TIdle /\ OIdle

NextSniper == check_and_sell

SpecSniper == InitSniper /\ [][NextSniper]_vars

\* ------------------------------------------------------------------------
\* aggregators/: the Route Provider adapters.  An operation is modelled by
\* what it returns and by the number of HTTP requests it sends; resp is the
\* answer of the service to that request, were it sent: status Raises for a
\* timeout or a connection error, else the HTTP status and, under 200, the
\* body: "ok" carries the fields the adapter reads, "empty" is a JSON
\* object without them, "notjson" makes resp.json() raise.
\* ------------------------------------------------------------------------
Adapters == { "okx", "1inch", "uniswap", "0x" }

\* chain ids set_chain is called with: two every source maps, one only 0x
\* maps, one nobody maps
ChainIds == { 1, 8453, 42161, 999 }

HttpStatus == { 200, 400, 401, 403, 429, 500 }

Bodies == { "ok", "empty", "notjson" }

Responses ==
    { [ status |-> st, body |-> "none" ] : st \in (HttpStatus \ { 200 }) \cup { Raises } }
    \cup { [ status |-> 200, body |-> b ] : b \in Bodies }

\* self.chain_mapping of OKXAggregator, UniswapAggregator, ZeroExAggregator,
\* as far as ChainIds goes; OneInchAggregator has none
chain_mapping(name) ==
    IF name = "0x" THEN { 1, 8453, 42161 } ELSE { 1, 8453 }

Answer(result, requests) == [ result |-> result, requests |-> requests ]

Quote(name, amount) == [ kind |-> "quote", source |-> name, toAmount |-> amount ]

SwapTx(name, to) == [ kind |-> "tx", source |-> name, to |-> to ]

Bool(b) == [ kind |-> "bool", value |-> b ]

\* OKXAggregator.get_quote
OKX_get_quote(chain_id, token_ok, resp) ==
    IF chain_id = 0 THEN Answer(None, 0)
    ELSE IF chain_id \notin chain_mapping("okx") THEN Answer(None, 0)
    ELSE IF ~token_ok THEN Answer(None, 0)
    ELSE IF resp.status = Raises THEN Answer(None, 1)
    ELSE IF resp.status = 200
         THEN IF resp.body = "notjson" THEN Answer(None, 1)
              ELSE IF resp.body = "ok" THEN Answer(Quote("okx", 1), 1)
              ELSE Answer(None, 1)
    ELSE Answer(None, 1)

\* OKXAggregator.get_swap_tx
OKX_get_swap_tx(chain_id, token_ok, resp) ==
    IF chain_id = 0 THEN Answer(None, 0)
    ELSE IF chain_id \notin chain_mapping("okx") THEN Answer(None, 0)
    ELSE IF ~token_ok THEN Answer(None, 0)
    ELSE IF resp.status = Raises THEN Answer(None, 1)
    ELSE IF resp.status = 200
         THEN IF resp.body = "notjson" THEN Answer(None, 1)
              ELSE IF resp.body = "ok" THEN Answer(SwapTx("okx", "to"), 1)
              ELSE Answer(None, 1)
    ELSE Answer(None, 1)

\* OKXAggregator.is_available
OKX_is_available(resp) ==
    IF resp.status = Raises THEN Answer(Bool(FALSE), 1)
    ELSE Answer(Bool(resp.status \in { 200, 401, 403 }), 1)

\* OneInchAggregator.get_quote
OneInch_get_quote(api_key, chain_id, token_ok, resp) ==
    IF ~api_key THEN Answer(None, 0)
    ELSE IF chain_id = 0 THEN Answer(None, 0)
    ELSE IF ~token_ok THEN Answer(None, 0)
    ELSE IF resp.status = Raises THEN Answer(None, 1)
    ELSE IF resp.status = 200
         THEN IF resp.body = "notjson" THEN Answer(None, 1)
              ELSE Answer(Quote("1inch", IF resp.body = "ok" THEN 1 ELSE 0), 1)
    ELSE Answer(None, 1)

\* OneInchAggregator.get_swap_tx
OneInch_get_swap_tx(api_key, chain_id, token_ok, resp) ==
    IF ~api_key THEN Answer(None, 0)
    ELSE IF chain_id = 0 THEN Answer(None, 0)
    ELSE IF ~token_ok THEN Answer(None, 0)
    ELSE IF resp.status = Raises THEN Answer(None, 1)
    ELSE IF resp.status = 200
         THEN IF resp.body = "notjson" THEN Answer(None, 1)
              ELSE Answer(SwapTx("1inch", IF resp.body = "ok" THEN "to" ELSE "None"), 1)
    ELSE Answer(None, 1)

\* OneInchAggregator.is_available
OneInch_is_available(api_key, resp) ==
    IF ~api_key THEN Answer(Bool(FALSE), 0)
    ELSE IF resp.status = Raises THEN Answer(Bool(FALSE), 1)
    ELSE Answer(Bool(resp.status = 200), 1)

\* UniswapAggregator.get_quote
Uniswap_get_quote(chain_id, token_ok, resp) ==
    IF chain_id = 0 THEN Answer(None, 0)
    ELSE IF chain_id \notin chain_mapping("uniswap") THEN Answer(None, 0)
    ELSE IF ~token_ok THEN Answer(None, 0)
    ELSE IF resp.status = Raises THEN Answer(None, 1)
    ELSE IF resp.status = 200
         THEN IF resp.body = "notjson" THEN Answer(None, 1)
              ELSE IF resp.body = "ok" THEN Answer(Quote("uniswap", 1), 1)
              ELSE Answer(None, 1)
    ELSE Answer(None, 1)

\* UniswapAggregator.get_swap_tx
Uniswap_get_swap_tx(chain_id, token_ok, resp) ==
    IF chain_id = 0 THEN Answer(None, 0)
    ELSE IF chain_id \notin chain_mapping("uniswap") THEN Answer(None, 0)
    ELSE IF ~token_ok THEN Answer(None, 0)
    ELSE IF resp.status = Raises THEN Answer(None, 1)
    ELSE IF resp.status = 200
         THEN IF resp.body = "notjson" THEN Answer(None, 1)
              ELSE IF resp.body = "ok" THEN Answer(SwapTx("uniswap", "to"), 1)
              ELSE Answer(None, 1)
    ELSE Answer(None, 1)

\* UniswapAggregator.is_available
Uniswap_is_available(resp) ==
    IF resp.status = Raises THEN Answer(Bool(FALSE), 1)
    ELSE Answer(Bool(resp.status = 200), 1)

\* ZeroExAggregator.get_quote
ZeroEx_get_quote(chain_id, token_ok, resp) ==
    IF chain_id = 0 THEN Answer(None, 0)
    ELSE IF chain_id \notin chain_mapping("0x") THEN Answer(None, 0)
    ELSE IF ~token_ok THEN Answer(None, 0)
    ELSE IF resp.status = Raises THEN Answer(None, 1)
    ELSE IF resp.status = 200
         THEN IF resp.body = "notjson" THEN Answer(None, 1)
              ELSE Answer(Quote("0x", IF resp.body = "ok" THEN 1 ELSE 0), 1)
    ELSE Answer(None, 1)

\* ZeroExAggregator.get_swap_tx
ZeroEx_get_swap_tx(chain_id, token_ok, resp) ==
    IF chain_id = 0 THEN Answer(None, 0)
    ELSE IF chain_id \notin chain_mapping("0x") THEN Answer(None, 0)
    ELSE IF ~token_ok THEN Answer(None, 0)
    ELSE IF resp.status = Raises THEN Answer(None, 1)
    ELSE IF resp.status = 200
         THEN IF resp.body = "notjson" THEN Answer(None, 1)
              ELSE Answer(SwapTx("0x", IF resp.body = "ok" THEN "to" ELSE "None"), 1)
    ELSE Answer(None, 1)

\* ZeroExAggregator.is_available
ZeroEx_is_available(resp) ==
    IF resp.status = Raises THEN Answer(Bool(FALSE), 1)
    ELSE Answer(Bool(resp.status \in { 200, 400, 429 }), 1)

\* the call of one operation of the adapter at hand
Call(op, token_ok, resp) == [ op |-> op, token_ok |-> token_ok, resp |-> resp ]

Returned(op, token_ok, resp, answer) ==
    /\ ag_call' = Call(op, token_ok, resp)
    /\ ag_result' = answer.result
    /\ ag_requests' = answer.requests
    /\ UNCHANGED << ag_name, ag_api_key, ag_chain_id >>
    /\ UNCHANGED << wvars, pvars, svars, tvars, ovars >>

\* AggregatorBase.set_chain
SetChain ==
    /\ \E chain_id \in ChainIds :
         /\ chain_id # ag_chain_id
         /\ ag_chain_id' = chain_id
    /\ ag_call' = [ op |-> "set_chain" ]
    /\ ag_result' = None
    /\ ag_requests' = 0
    /\ UNCHANGED << ag_name, ag_api_key >>
    /\ UNCHANGED << wvars, pvars, svars, tvars, ovars >>

GetQuote ==
    \E token_ok \in BOOLEAN, resp \in Responses :
      Returned("get_quote", token_ok, resp,
        IF ag_name = "okx" THEN OKX_get_quote(ag_chain_id, token_ok, resp)
        ELSE IF ag_name = "1inch"
        THEN OneInch_get_quote(ag_api_key, ag_chain_id, token_ok, resp)
        ELSE IF ag_name = "uniswap" THEN Uniswap_get_quote(ag_chain_id, token_ok, resp)
        ELSE ZeroEx_get_quote(ag_chain_id, token_ok, resp))

GetSwapTx ==
    \E token_ok \in BOOLEAN, resp \in Responses :
      Returned("get_swap_tx", token_ok, resp,
        IF ag_name = "okx" THEN OKX_get_swap_tx(ag_chain_id, token_ok, resp)
        ELSE IF ag_name = "1inch"
        THEN OneInch_get_swap_tx(ag_api_key, ag_chain_id, token_ok, resp)
        ELSE IF ag_name = "uniswap" THEN Uniswap_get_swap_tx(ag_chain_id, token_ok, resp)
        ELSE ZeroEx_get_swap_tx(ag_chain_id, token_ok, resp))

IsAvailable ==
    \E resp \in Responses :
      Returned("is_available", TRUE, resp,
        IF ag_name = "okx" THEN OKX_is_available(resp)
        ELSE IF ag_name = "1inch" THEN OneInch_is_available(ag_api_key, resp)
        ELSE IF ag_name = "uniswap" THEN Uniswap_is_available(resp)
        ELSE ZeroEx_is_available(resp))

\* the constructors: chain_id is None until set_chain is called
AInit ==
    /\ ag_name \in Adapters
    /\ ag_api_key \in BOOLEAN
    /\ ag_chain_id = 0
    /\ ag_call = NoCall
    /\ ag_result = None
    /\ ag_requests = 0

InitAdapters == WInit /\ PIdle /\ SIdle /\ AInit /\ TIdle /\ OIdle

NextAdapters ==
    \/ SetChain
    \/ GetQuote
    \/ GetSwapTx
    \/ IsAvailable

SpecAdapters == InitAdapters /\ [][NextAdapters]_vars

\* ------------------------------------------------------------------------
\* The two modes side by side: two monitors built alike; every transfer is
\* handed to one as the log get_logs returns for it (the body of the loop
\* of scan_recent_blocks) and to the other as the log the subscription
\* delivers for it (the processing of one message), in the same order.
\* ------------------------------------------------------------------------
Feed ==
    /\ fed < MaxFed
    /\ \E t \in Transfers, case \in Spellings :
          /\ poll_state' = ScanLog(poll_state, PollLog(t))
          /\ ws_state' = WsMessage(ws_state, WsLog(t, case))
    /\ fed' = fed + 1
    /\ UNCHANGED wvars
    /\ UNCHANGED pvars
    /\ UNCHANGED << svars, avars, ovars >>

NextTwin == Feed

SpecTwin == Init /\ [][NextTwin]_vars

\* ------------------------------------------------------------------------
\* AutoSellBot.run: start_monitoring(self.process_token).  The watcher's
\* "await callback(token)" runs process_token to its end: the monitor
\* coroutine is suspended in the await until the call returns.
\* ------------------------------------------------------------------------
HandlerPcs == { "poll_emit", "ws_handler" }

\* states of an attempt that has been started and has not ended
InFlight == { "Quoting", "BuildingTx", "CheckingAllowance", "Approving",
              "Signing", "Submitting", "Confirming" }

\* how the call that has just ended went
Outcome ==
    IF es_pc = "idle" THEN { "rejected" }
    ELSE IF es_pc = "Success" THEN {}
    ELSE { "swap_failed" }

\* variant: the handler is started as a task of its own, the watcher does
\* not wait for the call before it
BotCall_Spawn ==
    /\ pc \in HandlerPcs
    /\ new_tokens # << >>
    /\ process_token(Head(new_tokens))
    /\ emit_count' = [emit_count EXCEPT ![Head(new_events)] = IF @ >= 1 THEN 2 ELSE 1]
    /\ UNCHANGED << known_tokens, processed_events, token_last_block, last_block_scanned,
                    ws_connected, pc, retry_count, new_tokens, new_events, decisions,
                    scanned, rescanned, first_scanned, regressed, faults >>
    /\ UNCHANGED xvars

\* await callback(token): process_token is entered with the next token
BotCall ==
    /\ pc \in HandlerPcs
    /\ new_tokens # << >>
    /\ pt_pc = "idle"
    /\ process_token(Head(new_tokens))
    /\ emit_count' = [emit_count EXCEPT ![Head(new_events)] = IF @ >= 1 THEN 2 ELSE 1]
    /\ UNCHANGED << known_tokens, processed_events, token_last_block, last_block_scanned,
                    ws_connected, pc, retry_count, new_tokens, new_events, decisions,
                    scanned, rescanned, first_scanned, regressed, faults >>
    /\ UNCHANGED xvars

\* variant: a call that did not end in a successful swap ends the watcher
BotReturn_Propagate ==
    /\ pc \in HandlerPcs
    /\ pt_pc = "done"
    /\ new_tokens' = Tail(new_tokens)
    /\ new_events' = Tail(new_events)
    /\ pc' = IF Outcome # {} THEN "stopped"
             ELSE IF Tail(new_tokens) # << >> THEN pc
             ELSE IF pc = "poll_emit" THEN "poll_sleep" ELSE "ws_recv"
    /\ faults' = faults \cup Outcome
    /\ pt_pc' = "idle"
    /\ pt_token_address' = <<"a", "checksum">>
    /\ is_safe' = FALSE
    /\ reason' = ""
    /\ balance' = NoBalance
    /\ gas_ok' = FALSE
    /\ liquidity_info' = NoLiquidity
    /\ stages' = << >>
    /\ reads' = << >>
    /\ SwapIdle
    /\ UNCHANGED << safe_mode, blacklist_tokens, whitelist_tokens >>
    /\ UNCHANGED << known_tokens, processed_events, token_last_block, last_block_scanned,
                    ws_connected, retry_count, decisions, emit_count,
                    scanned, rescanned, first_scanned, regressed >>
    /\ UNCHANGED xvars

\* variant: after a call that did not end in a successful swap the event is
\* forgotten, so that a replay of it is handled again
BotReturn_Forget ==
    /\ pc \in HandlerPcs
    /\ pt_pc = "done"
    /\ new_tokens' = Tail(new_tokens)
    /\ new_events' = Tail(new_events)
    /\ pc' = IF Tail(new_tokens) # << >> THEN pc
             ELSE IF pc = "poll_emit" THEN "poll_sleep" ELSE "ws_recv"
    /\ faults' = faults \cup Outcome
    /\ processed_events' = IF Outcome # {} THEN processed_events \ { Head(new_events) }
                           ELSE processed_events
    /\ pt_pc' = "idle"
    /\ pt_token_address' = <<"a", "checksum">>
    /\ is_safe' = FALSE
    /\ reason' = ""
    /\ balance' = NoBalance
    /\ gas_ok' = FALSE
    /\ liquidity_info' = NoLiquidity
    /\ stages' = << >>
    /\ reads' = << >>
    /\ SwapIdle
    /\ UNCHANGED << safe_mode, blacklist_tokens, whitelist_tokens >>
    /\ UNCHANGED << known_tokens, token_last_block, last_block_scanned,
                    ws_connected, retry_count, decisions, emit_count,
                    scanned, rescanned, first_scanned, regressed >>
    /\ UNCHANGED xvars

\* process_token has returned (it catches what its stages raise): the await
\* ends, the call's locals are gone, the watcher goes on with the next
\* token, or with the sleep / the next recv
BotReturn ==
    /\ pc \in HandlerPcs
    /\ pt_pc = "done"
    /\ new_tokens' = Tail(new_tokens)
    /\ new_events' = Tail(new_events)
    /\ pc' = IF Tail(new_tokens) # << >> THEN pc
             ELSE IF pc = "poll_emit" THEN "poll_sleep" ELSE "ws_recv"
    /\ faults' = faults \cup Outcome
    /\ pt_pc' = "idle"
    /\ pt_token_address' = <<"a", "checksum">>
    /\ is_safe' = FALSE
    /\ reason' = ""
    /\ balance' = NoBalance
    /\ gas_ok' = FALSE
    /\ liquidity_info' = NoLiquidity
    /\ stages' = << >>
    /\ reads' = << >>
    /\ SwapIdle
    /\ UNCHANGED << safe_mode, blacklist_tokens, whitelist_tokens >>
    /\ UNCHANGED << known_tokens, processed_events, token_last_block, last_block_scanned,
                    ws_connected, retry_count, decisions, emit_count,
                    scanned, rescanned, first_scanned, regressed >>
    /\ UNCHANGED xvars

\* the scan and the log notification, on a chain of BotMaxBlock blocks
\* whose height, as the gateway reports it, does not go back
BotPollScan ==
    /\ PollScan
    /\ last_block_scanned' <= BotMaxBlock
    /\ last_block_scanned' >= last_block_scanned

BotWsRecvLog ==
    /\ WsRecvLog
    /\ \A i \in 1..Len(decisions') : decisions'[i].block <= BotMaxBlock

NextBot ==
    \/ StartMonitoring
    \/ BotPollScan
    \/ PollSleep
    \/ WsConnect
    \/ WsSleep
    \/ BotWsRecvLog
    \/ WsRecvOther
    \/ WsRecvError
    \/ BotCall
    \/ BotReturn
    \/ PT_Security
    \/ PT_Balance
    \/ PT_Gas
    \/ PT_Liquidity
    \/ PT_Swap
    \/ PT_Outcome
    \/ ES_Quote
    \/ ES_SwapData
    \/ ES_CheckAllowance
    \/ ES_Approve
    \/ ES_Sign
    \/ ES_Submit
    \/ ES_Confirm

SpecBot == Init /\ [][NextBot]_vars

\* ------------------------------------------------------------------------
\* Properties of the Event Watcher (specification Spec)
\* ------------------------------------------------------------------------

\* C1: in polling mode, in subscription mode and across the fallback from
\* subscription to polling, the handler is called at most once for a given
\* (tokenAddress, txHash) pair.
C1_EmittedAtMostOnce ==
    \A k \in EventKeys : emit_count[k] <= 1

\* the log of a pair whose handler call has happened is fed again and dropped
C1_Witness ==
    \E i \in 1..Len(decisions) :
        /\ decisions[i].seen
        /\ ~decisions[i].emitted
        /\ emit_count[decisions[i].key] = 1

C3_BoundaryIncluded ==
    \A i \in 1..Len(decisions) :
        LET d == decisions[i] IN
        (d.to_me /\ d.had_last /\ (d.block - d.last) \in 0..DUPLICATE_CHECK_BLOCKS)
            => ~d.emitted

\* C3 (amended): a transfer fewer than DUPLICATE_CHECK_BLOCKS blocks after the
\* token's last recorded block is not emitted; a transfer (with a hash not
\* processed yet) exactly DUPLICATE_CHECK_BLOCKS blocks after it is emitted.
C3_BoundaryExcluded ==
    \A i \in 1..Len(decisions) :
        LET d == decisions[i] IN
        (d.to_me /\ d.had_last) =>
            /\ d.block - d.last < DUPLICATE_CHECK_BLOCKS => ~d.emitted
            /\ (d.block - d.last = DUPLICATE_CHECK_BLOCKS /\ ~d.seen) => d.emitted

C3_Witness ==
    \E i \in 1..Len(decisions) :
        /\ decisions[i].had_last
        /\ decisions[i].block - decisions[i].last = DUPLICATE_CHECK_BLOCKS
        /\ decisions[i].emitted

\* C4: while the reported heights never go down, no block lies in the range
\* of two polling cycles and every block from the first scanned one up to
\* last_block_scanned lay in the range of some cycle.
C4_EveryBlockScannedOnce ==
    regressed = 0 =>
        /\ ~rescanned
        /\ first_scanned > 0 =>
              \A b \in first_scanned..last_block_scanned : b \in scanned

\* C5: last_block_scanned never decreases.
C5_LastBlockScannedNeverDecreases ==
    [][last_block_scanned' >= last_block_scanned]_vars

\* ------------------------------------------------------------------------
\* Properties of the Coordinator and the Orchestrator (SpecPipeline)
\* ------------------------------------------------------------------------
StageRank(name) ==
    CASE name = "native" -> 1 [] name = "security" -> 2 [] name = "balance" -> 3
      [] name = "gas" -> 4 [] name = "liquidity" -> 5 [] name = "swap" -> 6

StateRank(state) ==
    CASE state = "Quoting" -> 1 [] state = "BuildingTx" -> 2
      [] state = "CheckingAllowance" -> 3 [] state = "Approving" -> 4
      [] state = "Signing" -> 5 [] state = "Submitting" -> 6
      [] state = "Confirming" -> 7 [] state \in Terminal -> 8

StageNames == [ i \in 1..Len(stages) |-> stages[i].stage ]

SentOf(kind) == { i \in 1..Len(sent) : sent[i].kind = kind }

\* C6: the orchestrator is invoked for a token only after, in this order,
\* the native-asset test, the Security Gate (safe mode), the balance test,
\* the gas check (its verdict counting in safe mode) and the Liquidity Gate
\* all accepted; a stage that rejects is the last stage run and no swap is
\* attempted.
C6_SwapOnlyAfterEveryGate ==
    /\ \A i \in 1..(Len(stages) - 1) : stages[i].passed
    /\ \A i, j \in 1..Len(stages) :
          i < j => StageRank(stages[i].stage) < StageRank(stages[j].stage)
    /\ (stages # << >> /\ ~stages[Len(stages)].passed) =>
          /\ pt_pc = "done"
          /\ es_pc = "idle"
          /\ sent = << >>
    /\ es_pc # "idle" =>
          /\ lower(pt_token_address) # lower(get_wrapped_native_token)
          /\ safe_mode => is_safe
          /\ balance.raw > 0
          /\ safe_mode => gas_ok
          /\ liquidity_info.has_liquidity
          /\ liquidity_info.liquidity_usd >= MIN_LIQUIDITY
          /\ StageNames = IF safe_mode
                          THEN << "native", "security", "balance", "gas", "liquidity", "swap" >>
                          ELSE << "native", "balance", "gas", "liquidity", "swap" >>

\* in safe mode every gate accepted and the orchestrator was invoked
C6_Witness ==
    /\ safe_mode
    /\ es_pc = "Quoting"
    /\ Len(stages) = 6

\* C7: once the allowance has been read, an allowance of at least the amount
\* means that no approve call is made and no approve transaction is issued;
\* an allowance below the amount means that an approve transaction has been
\* issued by the time the swap transaction is signed.
C7_ApproveTxBeforeSigning ==
    Len(es_trace) >= 4 =>
        /\ current_allowance >= amount_in =>
              /\ approve_calls = << >>
              /\ SentOf("approve") = {}
              /\ \A i \in 1..Len(es_trace) : es_trace[i] # "Approving"
        /\ (current_allowance < amount_in /\ signed >= 1) =>
              /\ Len(approve_calls) = 1
              /\ SentOf("approve") # {}
              /\ \E i, j \in 1..Len(es_trace) :
                    i < j /\ es_trace[i] = "Approving" /\ es_trace[j] = "Signing"

\* C8: after an approve_token call that failed, no swap transaction is signed
\* or submitted in that attempt.
C8_FailedApprovalEndsAttempt ==
    (\E i \in 1..Len(approve_calls) : approve_calls[i].outcome # "confirmed") =>
        /\ signed = 0
        /\ SentOf("swap") = {}
        /\ es_pc \notin { "Submitting", "Confirming", "Success", "Reverted" }

\* C9: a null quote ends the attempt as Failed before swap data is
\* requested, null swap data ends it as Failed before the allowance is read;
\* in both cases no approve and no swap transaction is sent.
C9_NullQuoteOrSwapDataFails ==
    /\ (Len(es_trace) >= 2 /\ quote = None) =>
          /\ es_trace = << "Quoting", "Failed" >>
          /\ approve_calls = << >> /\ signed = 0 /\ sent = << >>
    /\ (Len(es_trace) >= 3 /\ swap_data = None) =>
          /\ es_trace = << "Quoting", "BuildingTx", "Failed" >>
          /\ approve_calls = << >> /\ signed = 0 /\ sent = << >>

\* a quote was obtained and the swap data came back null
C9_Witness ==
    /\ quote # None
    /\ swap_data = None
    /\ es_trace = << "Quoting", "BuildingTx", "Failed" >>

\* C10: in one attempt the swap transaction is signed at most once and
\* submitted at most once, exactly once when the attempt ends in Success,
\* and the states are entered in forward order, none twice.
C10_SignedOnceForwardOnly ==
    /\ signed <= 1
    /\ Cardinality(SentOf("swap")) <= 1
    /\ es_pc = "Success" => (signed = 1 /\ Cardinality(SentOf("swap")) = 1)
    /\ \A i, j \in 1..Len(es_trace) :
          i < j => StateRank(es_trace[i]) < StateRank(es_trace[j])

\* an attempt that went through Approving ended in Success
C10_Witness ==
    /\ es_pc = "Success"
    /\ \E i \in 1..Len(es_trace) : es_trace[i] = "Approving"

\* C11: from the moment the swap transaction is accepted by the node the
\* attempt waits for its receipt and nothing else: it is in Confirming until
\* the wait ends; it ends in Success exactly when a receipt with status 1
\* was obtained, in Reverted when a receipt with another status was obtained,
\* in Failed when the wait raised (timeout); the transaction is not signed
\* or sent again.
C11_ConfirmationDecidesOutcome ==
    SentOf("swap") # {} =>
        /\ es_pc \in { "Confirming" } \cup Terminal
        /\ es_trace[Len(es_trace) - (IF es_pc = "Confirming" THEN 0 ELSE 1)] = "Confirming"
        /\ es_pc = "Confirming" => receipt = None
        /\ es_pc = "Success" <=> (receipt # None /\ receipt.status = 1)
        /\ es_pc = "Reverted" <=> (receipt # None /\ receipt.status # 1)
        /\ es_pc = "Failed" <=> (es_pc # "Confirming" /\ receipt = None)
        /\ Cardinality(SentOf("swap")) = 1
        /\ signed = 1

\* a submitted swap whose receipt reports failure: the attempt is Reverted
C11_Witness ==
    /\ es_pc = "Reverted"
    /\ SentOf("swap") # {}
    /\ receipt # None
    /\ receipt.status = 0

\* C12: an attempt is declared failed for want of a quote or of swap data
\* only after every provider of the configured priority order has been
\* tried, in that order.
C12_NextProviderTriedBeforeFailure ==
    (es_pc = "Failed" /\ (Falsy(quote) \/ Falsy(swap_data))) =>
        ProvidersTried = AGGREGATOR_PRIORITY

\* ------------------------------------------------------------------------
\* Retry discipline of the Event Watcher (specifications Spec, SpecFair)
\* ------------------------------------------------------------------------
\* C13: if every connection that is established is lost again, the watcher
\* eventually runs the polling loop; once it runs the polling loop it never
\* leaves it.
C13_FallbackWhenConnectionKeepsDropping ==
    /\ (\A p \in SubscribedPcs : (pc = p) ~> (pc = "ws_connect")) => <>(pc \in PollPcs)
    /\ [](pc \in PollPcs => [](pc \in PollPcs))

\* C14: a connection attempt that is not the first one is entered from the
\* backoff sleep, a polling cycle that is not the first one is entered from
\* the cycle's sleep, and a lost connection or a failed attempt adds one to
\* the retry counter.
C14_BackoffBetweenAttempts ==
    [][ /\ (pc' = "ws_connect" /\ pc # "ws_connect") => pc \in { "start", "ws_sleep" }
        /\ (pc' = "poll_scan" /\ pc # "poll_scan") =>
               pc \in { "start", "poll_sleep", "ws_connect" }
        /\ (pc \in SubscribedPcs /\ pc' = "ws_connect") => retry_count' = retry_count + 1
      ]_vars

\* C15: a polling cycle whose log query raised adds one to the retry counter
\* (back to zero when the bound is reached); a cycle whose query succeeded
\* sets it to zero.
C15_QueryErrorCountsAsFailure ==
    [][ (pc \in { "poll_scan", "poll_sleep" } /\ pc' = "poll_scan" /\ pc # pc') =>
            IF "scan" \in faults
            THEN retry_count' = (IF retry_count + 1 >= max_retries THEN 0 ELSE retry_count + 1)
            ELSE retry_count' = 0
      ]_vars

\* the event keys still to be passed to the handler
PendingEvents == { new_events[i] : i \in 1..Len(new_events) }

\* C17: after a handler call has raised, the watcher is still inside its
\* loop (emitting the rest of the cycle's tokens, sleeping before the next
\* cycle, or receiving the next message), and every transfer the cycle
\* decided to emit has been passed to the handler or is still due to be.
C17_HandlerFailureDoesNotAbort ==
    "handler" \in faults =>
        /\ pc \in { "poll_emit", "poll_sleep", "ws_recv" }
        /\ pc = "poll_emit" <=> new_tokens # << >>
        /\ \A i \in 1..Len(decisions) :
              decisions[i].emitted =>
                  \/ emit_count[decisions[i].key] >= 1
                  \/ decisions[i].key \in PendingEvents

\* a polling cycle detected two transfers, a handler call raised, and both
\* transfers were passed to the handler
C17_Witness ==
    /\ "handler" \in faults
    /\ pc = "poll_sleep"
    /\ \E i, j \in 1..Len(decisions) :
          /\ i < j
          /\ decisions[i].emitted /\ decisions[j].emitted
          /\ emit_count[decisions[i].key] >= 1
          /\ emit_count[decisions[j].key] >= 1

\* ------------------------------------------------------------------------
\* Properties of the watcher running the handler (specification SpecBot)
\* ------------------------------------------------------------------------
\* C16: whatever has failed (gateway error, rejected token, failed or
\* reverted swap, lost connection), the monitor coroutine is at a position
\* inside one of its loops and a further step of the bot is possible.
C16_WatchLoopNeverTerminates ==
    /\ pc \in WatcherPcs
    /\ ENABLED NextBot

\* one polling cycle in which a token was rejected by a gate and the swap of
\* another one failed: the watcher goes on to its sleep
C16_Witness ==
    /\ pc = "poll_sleep"
    /\ { "rejected", "swap_failed" } \subseteq faults

\* C18: while a pipeline run waits for the liquidity oracle, for the quote or
\* for the receipt, the watcher can take a step of its scan / receive loop.
C18_WatcherResumesDuringPipeline ==
    (pt_pc = "liquidity" \/ es_pc \in { "Quoting", "Confirming" }) =>
        ENABLED (BotPollScan \/ PollSleep \/ BotWsRecvLog \/ WsRecvOther)

\* C19: no call of process_token starts for a token while a swap attempt for
\* that token is in flight.
C19_OneAttemptInFlightPerToken ==
    [][ (Len(stages') = 1 /\ pt_pc # pt_pc') =>
            ~(es_pc \in InFlight /\ pt_token_address = pt_token_address')
      ]_vars

\* a swap attempt is in flight for a token whose next transfer, detected in
\* the same cycle, is waiting for its handler call
C19_Witness ==
    /\ es_pc \in InFlight
    /\ Len(new_tokens) >= 2
    /\ new_tokens[2] = pt_token_address

\* ------------------------------------------------------------------------
\* Properties of the Security Gate (specification SpecGate)
\* ------------------------------------------------------------------------
\* the token's address as the lists hold it
Listed(token, list) == << token[1], "lower" >> \in list

\* C20: the reason given by the gate is that of the first failing check in
\* the order blacklist, whitelist, well-formedness, liveness probe: a
\* blacklisted token gets the blacklist reason whether whitelisted or not;
\* the whitelist reason is given only under a non-empty whitelist that does
\* not hold the token; the verdict does not depend on the spelling (case) of
\* the address.
C20_GateOrderAndCaseInsensitivity ==
    pt_pc = "done" =>
        LET token == pt_token_address
            black == Listed(token, blacklist_tokens)
            white == whitelist_tokens = {} \/ Listed(token, whitelist_tokens)
        IN  /\ black <=> reason = "Token in blacklist"
            /\ (~black /\ ~white) <=> reason = "Token not in whitelist"
            /\ (~black /\ white /\ token[1] = "malformed") <=> reason = "Invalid token address"
            /\ (~black /\ white /\ token[1] # "malformed") <=>
                   reason \in { "Contract error", "Zero total supply", "Token valid" }
            /\ is_safe <=> reason = "Token valid"
            /\ \A spelling \in Spellings, decimals \in TokenDecimals \cup { Raises },
                  total_supply \in { Raises, 0, 1 } :
                  validate_token(<< token[1], spelling >>, decimals, total_supply)
                     = validate_token(<< token[1], "lower" >>, decimals, total_supply)

\* a token on both lists, spelled in upper case, rejected for the blacklist
C20_Witness ==
    /\ pt_pc = "done"
    /\ pt_token_address[2] = "upper"
    /\ Listed(pt_token_address, blacklist_tokens)
    /\ Listed(pt_token_address, whitelist_tokens)
    /\ reason = "Token in blacklist"
    /\ ~is_safe

\* ------------------------------------------------------------------------
\* Properties of the gates (specifications SpecGate, SpecPipeline)
\* ------------------------------------------------------------------------
\* C21: when validate_token gets as far as the liveness probe, it answers
\* (False, "Contract error ...") if the decimals() or the totalSupply() read
\* raises, (False, "Zero total supply") if totalSupply() answers 0, and
\* (True, ...) otherwise; it answers True only after both reads have
\* answered and totalSupply() was not 0.
C21_ProbeRejectsDeadContracts ==
    stages # << >> =>
      LET probed == reads # << >>
          failed == \E i \in 1..Len(reads) : reads[i].answer = Raises
          supply == IF Len(reads) = 2 THEN reads[2].answer ELSE Raises
      IN  /\ probed /\ failed => ~is_safe /\ reason = "Contract error"
          /\ probed /\ ~failed /\ supply = 0 => ~is_safe /\ reason = "Zero total supply"
          /\ is_safe <=> /\ Len(reads) = 2
                         /\ reads[1].call = "decimals" /\ reads[1].answer # Raises
                         /\ reads[2].call = "totalSupply" /\ reads[2].answer \notin { Raises, 0 }

\* the totalSupply() read raised after decimals() had answered
C21_Witness ==
    /\ Len(reads) = 2
    /\ reads[1].answer # Raises
    /\ reads[2].answer = Raises
    /\ ~is_safe
    /\ reason = "Contract error"

\* C22: check_gas_price answers False exactly when the gateway's gas price
\* lies above MAX_GAS_PRICE (a price equal to it is accepted) or cannot be
\* read; the answer is a function of the price alone, whatever token the
\* call of process_token is about.
C22_GasCeiling ==
    (stages # << >> /\ stages[Len(stages)].stage = "gas") =>
      /\ Len(reads) = 1
      /\ reads[1].call = "gas_price"
      /\ gas_ok <=> (reads[1].answer # Raises /\ reads[1].answer <= MAX_GAS_PRICE)
      /\ ~gas_ok <=> (reads[1].answer = Raises \/ reads[1].answer > MAX_GAS_PRICE)

\* a price equal to the ceiling was accepted for a token other than "a"
C22_Witness ==
    /\ stages # << >> /\ stages[Len(stages)].stage = "gas"
    /\ reads = << Read("gas_price", MAX_GAS_PRICE) >>
    /\ gas_ok
    /\ pt_token_address[1] # "a"

\* C23: is_tradeable is a threshold test.  For the snapshot the liquidity
\* step has just judged, if it has liquidity the verdict is True exactly
\* when liquidity_usd >= MIN_LIQUIDITY (2000 gives False, 3000 and 3500
\* give True), and the same snapshot with any higher liquidity_usd is
\* judged True whenever this one is.
C23_TradeableIsMonotoneThreshold ==
    (stages # << >> /\ stages[Len(stages)].stage = "liquidity") =>
      LET passed == stages[Len(stages)].passed IN
      /\ liquidity_info.has_liquidity =>
            (passed <=> liquidity_info.liquidity_usd >= MIN_LIQUIDITY)
      /\ ~liquidity_info.has_liquidity => ~passed
      /\ \A usd \in LiquidityFigures :
            (passed /\ usd >= liquidity_info.liquidity_usd) =>
               is_tradeable([ liquidity_info EXCEPT !.liquidity_usd = usd ])
      /\ \A usd \in LiquidityFigures :
            (~passed /\ usd <= liquidity_info.liquidity_usd) =>
               ~is_tradeable([ liquidity_info EXCEPT !.liquidity_usd = usd ])

\* a snapshot exactly at the minimum was judged tradeable
C23_Witness ==
    /\ stages # << >> /\ stages[Len(stages)].stage = "liquidity"
    /\ liquidity_info.has_liquidity
    /\ liquidity_info.liquidity_usd = MIN_LIQUIDITY
    /\ stages[Len(stages)].passed

\* C24: check_liquidity answers the zero-liquidity snapshot without sending
\* a request to the oracle when the token is the zero address or no
\* address at all, and answers the same snapshot when the request fails,
\* times out, is answered with a status other than 200 or lists no pair.
C24_DegenerateInputsNeedNoOracle ==
    (stages # << >> /\ stages[Len(stages)].stage = "liquidity") =>
      /\ (lower(pt_token_address) = zero_address \/ ~is_address(pt_token_address)) =>
            /\ reads = << >>
            /\ liquidity_info = NoLiquidity
      /\ \A i \in 1..Len(reads) :
            (\/ reads[i].answer.status # 200
             \/ reads[i].answer.pairs = {}) => liquidity_info = NoLiquidity

\* ------------------------------------------------------------------------
\* Properties of the sniper (specification SpecSniper)
\* ------------------------------------------------------------------------
\* C25, as claimed: the first check that finds tradeable liquidity records
\* initial_liquidity and calls execute_swap if and only if the threshold is
\* at most 1.0; a later check calls execute_swap if and only if the balance
\* is positive, the snapshot tradeable and current / initial >= threshold.
C25_SwapIffGrowthReached ==
    sn_check # NoCheck =>
      LET found == sn_check.balance > 0 /\ sniper_is_tradeable(sn_check.info) IN
      /\ (sn_check.first /\ found) =>
            /\ initial_liquidity = sn_check.info.liquidity_usd
            /\ sn_check.swap <=> liquidity_growth_threshold <= 10
      /\ ~sn_check.first =>
            (sn_check.swap <=>
               /\ found
               /\ sn_check.info.liquidity_usd * 10
                    >= liquidity_growth_threshold * initial_liquidity)

\* C25, amended: the same with "goes on to the sale" in the place of "calls
\* execute_swap"; execute_swap is called only by a check that went on to
\* the sale, and then exactly when the total supply and the exact balance
\* it reads are both positive.
C25_SaleIffGrowthReached ==
    sn_check # NoCheck =>
      LET found == sn_check.balance > 0 /\ sniper_is_tradeable(sn_check.info) IN
      /\ (sn_check.first /\ found) =>
            /\ initial_liquidity = sn_check.info.liquidity_usd
            /\ sn_check.selling <=> liquidity_growth_threshold <= 10
      /\ (sn_check.first /\ ~found) => ~sn_check.selling /\ ~has_liquidity_detected
      /\ ~sn_check.first =>
            (sn_check.selling <=>
               /\ found
               /\ sn_check.info.liquidity_usd * 10
                    >= liquidity_growth_threshold * initial_liquidity)
      /\ sn_check.swap <=>
            (sn_check.selling /\ sn_check.total_supply > 0 /\ sn_check.amount_wei > 0)

\* a later check found the pool grown to exactly the threshold of 1.5 and
\* called execute_swap
C25_Witness ==
    /\ sn_check # NoCheck
    /\ ~sn_check.first
    /\ liquidity_growth_threshold = 15
    /\ sn_check.info.liquidity_usd * 10 = liquidity_growth_threshold * initial_liquidity
    /\ sn_check.swap

\* ------------------------------------------------------------------------
\* Properties of the Route Provider adapters (specification SpecAdapters)
\* ------------------------------------------------------------------------
\* C26: get_quote and get_swap_tx of every adapter return None when the
\* chain is unset or not one the adapter maps, when the request times out
\* or fails, when the status is not 200 (401 and 403 included), and when
\* the body of a 200 answer is no JSON or lacks the fields of a quote.
C26_NullOnEveryFailure ==
    ag_call.op \in { "get_quote", "get_swap_tx" } =>
      ((\/ ag_chain_id = 0
        \/ (ag_name # "1inch" /\ ag_chain_id \notin chain_mapping(ag_name))
        \/ ag_call.resp.status # 200
        \/ ag_call.resp.body \in { "empty", "notjson" })
       => ag_result = None)

\* C27: with its chain set to an identifier it has no mapping for, an
\* adapter returns None from get_quote and get_swap_tx and sends no request.
\* OneInchAggregator keeps no chain map; it is held here only to the chains
\* that none of the other adapters maps either.
C27_UnmappedChainSendsNothing ==
    ag_call.op \in { "get_quote", "get_swap_tx" } =>
      LET mapped == IF ag_name = "1inch"
                    THEN UNION { chain_mapping(n) : n \in Adapters \ { "1inch" } }
                    ELSE chain_mapping(ag_name)
      IN  (ag_chain_id # 0 /\ ag_chain_id \notin mapped)
            => (ag_result = None /\ ag_requests = 0)

\* C28: is_available returns True when the probe is answered with 401 or
\* 403 and False when the probe gets no answer.
C28_AuthRequiredCountsAsAvailable ==
    (ag_call.op = "is_available" /\ ag_requests = 1) =>
      /\ ag_call.resp.status \in { 401, 403 } => ag_result = Bool(TRUE)
      /\ ag_call.resp.status = Raises => ag_result = Bool(FALSE)

\* ------------------------------------------------------------------------
\* Properties of the DetectionState (specifications SpecBot, SpecTwin)
\* ------------------------------------------------------------------------
\* C29: no step removes an element from known_tokens or processed_events,
\* and a step of process_token or of execute_swap (one that moves pt_pc or
\* es_pc) leaves known_tokens, processed_events, token_last_block and
\* last_block_scanned as they are.
C29_DetectionStateOwnedByWatcher ==
    [][ /\ known_tokens \subseteq known_tokens'
        /\ processed_events \subseteq processed_events'
        /\ (pt_pc' # pt_pc \/ es_pc' # es_pc) =>
              UNCHANGED << known_tokens, processed_events, token_last_block,
                           last_block_scanned >> ]_vars

\* the handler is waiting for the receipt of a swap while the watcher
\* holds detections
C29_Witness ==
    /\ pt_pc = "swap"
    /\ es_pc = "Confirming"
    /\ known_tokens # {}
    /\ processed_events # {}
    /\ last_block_scanned > 0

\* C30: two monitors that start alike and are fed the same transfers in the
\* same order, one through the processing of the polling loop and one
\* through the processing of the subscription loop, have emitted the same
\* tokens in the same order and hold the same known_tokens,
\* processed_events and token_last_block.
C30_ModesProcessAlike ==
    /\ poll_state.new_tokens = ws_state.new_tokens
    /\ poll_state.known_tokens = ws_state.known_tokens
    /\ poll_state.processed_events = ws_state.processed_events
    /\ poll_state.token_last_block = ws_state.token_last_block

\* three logs went through both: two tokens were emitted, the third log
\* was passed over
C30_Witness ==
    /\ fed >= 3
    /\ Len(poll_state.new_tokens) = 2
    /\ Len(ws_state.new_tokens) = 2
    /\ Cardinality(ws_state.processed_events) = 2

\* ------------------------------------------------------------------------
\* Properties of the scan and of the cooldown (specifications Spec,
\* SpecFallback, SpecBot)
\* ------------------------------------------------------------------------
\* C31: a polling cycle whose log query is answered leaves
\* last_block_scanned at the block height it read, whether or not a log
\* matched; a cycle whose height read or log query raises leaves
\* last_block_scanned, known_tokens, processed_events and token_last_block
\* as they were and hands no token on.
C31_ScanAdvancesOrLeavesAlone ==
    [][ (pc = "poll_scan" /\ pc' # "poll_scan") =>
           IF "scan" \in faults'
           THEN /\ UNCHANGED << last_block_scanned, known_tokens, processed_events,
                                token_last_block >>
                /\ new_tokens' = << >>
           ELSE last_block_scanned' = block_read' ]_vars

\* a scan was answered without any log for the wallet, ever, and the
\* height moved on
C31_Witness ==
    /\ pc = "poll_sleep"
    /\ faults = {}
    /\ decisions = << >>
    /\ known_tokens = {}
    /\ last_block_scanned > 0
    /\ last_block_scanned = block_read

\* the addresses tokens are recorded under
TokenKeys == { k[1] : k \in EventKeys }

\* the decisions of a scan or a message that handed token tok on
EmittedFor(ds, tok) == { i \in DOMAIN ds : ds[i].key[1] = tok /\ ds[i].emitted }

\* C32: the cooldown of a token runs from its last emitted transfer.  A
\* scan or a message that emits no transfer of a token changes neither the
\* token's entry in token_last_block nor the token's pairs in
\* processed_events; after one that emits, the entry is the block of the
\* last transfer emitted; and a transfer with a new hash that lies
\* DUPLICATE_CHECK_BLOCKS or more blocks after that entry is emitted,
\* whatever was passed over in between.
C32_CooldownFromLastEmission ==
    [][ /\ \A tok \in TokenKeys :
              IF EmittedFor(decisions', tok) = {} \/ decisions' = decisions
              THEN /\ (tok \in DOMAIN token_last_block') = (tok \in DOMAIN token_last_block)
                   /\ tok \in DOMAIN token_last_block =>
                         token_last_block'[tok] = token_last_block[tok]
                   /\ { e \in processed_events' : e[1] = tok } =
                      { e \in processed_events : e[1] = tok }
              ELSE LET last == CHOOSE i \in EmittedFor(decisions', tok) :
                                  \A j \in EmittedFor(decisions', tok) : j <= i
                   IN  token_last_block'[tok] = decisions'[last].block
        /\ \A i \in DOMAIN decisions' :
              LET d == decisions'[i] IN
              (d.to_me /\ ~d.seen /\ d.had_last /\ d.block - d.last >= DUPLICATE_CHECK_BLOCKS)
                 => d.emitted ]_vars

\* one scan met two transfers of a token emitted at block 1: the one at
\* block 2 was passed over, the one DUPLICATE_CHECK_BLOCKS after block 1 was
\* emitted, measured from block 1 both times
C32_Witness ==
    /\ Len(decisions) = 2
    /\ decisions[1].mode = "poll"
    /\ decisions[1].key[1] = decisions[2].key[1]
    /\ decisions[1].to_me /\ ~decisions[1].seen /\ ~decisions[1].emitted
    /\ decisions[1].had_last /\ decisions[1].last = 1 /\ decisions[1].block = 2
    /\ decisions[2].emitted
    /\ decisions[2].last = 1
    /\ decisions[2].block = 1 + DUPLICATE_CHECK_BLOCKS

\* C33: in every state of the watcher the tokens with an entry in
\* token_last_block are the tokens of known_tokens, and these are the
\* tokens that occur in a pair of processed_events.
C33_DetectionStructuresAgree ==
    /\ DOMAIN token_last_block = known_tokens
    /\ { e[1] : e \in processed_events } = known_tokens

\* both tokens are known, one of them by more than one transfer
C33_Witness ==
    /\ Cardinality(known_tokens) = 2
    /\ Cardinality(processed_events) >= 3
    /\ DOMAIN token_last_block = known_tokens

\* C34: the block recorded for a token only moves forward.  No step lowers
\* an entry of token_last_block; a transfer that is emitted for a token
\* with an entry lies strictly above the entry; and a transfer at or below
\* the entry (delivered out of order, or again) is passed over.
C34_LastBlockStrictlyIncreases ==
    [][ /\ \A tok \in DOMAIN token_last_block :
              /\ tok \in DOMAIN token_last_block'
              /\ token_last_block'[tok] >= token_last_block[tok]
        /\ \A i \in DOMAIN decisions' :
              LET d == decisions'[i] IN
              /\ (d.emitted /\ d.had_last) => d.block > d.last
              /\ (d.had_last /\ d.block <= d.last) => ~d.emitted
              /\ (d.emitted /\ decisions' # decisions) =>
                    token_last_block'[d.key[1]] >= d.block ]_vars

\* the subscription delivered a transfer with a new hash from a block
\* below the one recorded for its token, and it was passed over
C34_Witness ==
    /\ Len(decisions) = 1
    /\ decisions[1].mode = "ws"
    /\ decisions[1].to_me /\ ~decisions[1].seen
    /\ decisions[1].had_last
    /\ decisions[1].block < decisions[1].last
    /\ ~decisions[1].emitted
    /\ token_last_block[decisions[1].key[1]] = decisions[1].last

\* the event a transfer is recorded under
KeyOf(t) == << lower(<<t.token, "x">>), <<"str", t.tx>> >>

\* C35: what the subscription loop handled is not emitted after the
\* fallback.  While the watcher is subscribed last_block_scanned is 0, so
\* the first scan after the fallback starts from it; and in every state,
\* the scan passes over the log of every transfer whose event is in
\* processed_events and of every transfer the subscription loop passed
\* over for the cooldown: such a log changes nothing and emits nothing,
\* and no scan has decided otherwise.
C35_NoReemissionAfterFallback ==
    /\ pc \in { "ws_connect", "ws_sleep", "ws_recv", "ws_handler" } => last_block_scanned = 0
    /\ \A t \in Transfers :
          (t \in ws_suppressed \/ (t.to = my_address /\ KeyOf(t) \in processed_events)) =>
             ScanLog(DetectionState, PollLog(t)) = DetectionState
    /\ \A i \in DOMAIN decisions :
          (/\ decisions[i].mode = "poll"
           /\ \E t \in ws_suppressed :
                 KeyOf(t) = decisions[i].key /\ t.block = decisions[i].block)
             => ~decisions[i].emitted

\* after the fallback a scan has replayed a transfer the subscription loop
\* had passed over for the cooldown, and one it had emitted
C35_Witness ==
    /\ pc \in PollPcs
    /\ Len(decisions) = 2
    /\ \E i, j \in DOMAIN decisions :
          /\ decisions[i].mode = "poll" /\ ~decisions[i].seen /\ ~decisions[i].emitted
          /\ \E t \in ws_suppressed :
                KeyOf(t) = decisions[i].key /\ t.block = decisions[i].block
          /\ decisions[j].mode = "poll" /\ decisions[j].seen /\ ~decisions[j].emitted

\* C36: a transfer is recorded before its handler call.  At every call of
\* the handler the event it is called for is in processed_events and its
\* token has its entry in token_last_block, and so has every event of the
\* batch that still waits for its call; the handler had not been called
\* for the event before, whether earlier calls were rejected, failed or
\* succeeded; and what a scan or a message emits is a transfer with a new
\* hash outside the cooldown of its token.
C36_RecordedBeforeHandler ==
    [][ /\ \A k \in EventKeys :
              emit_count'[k] # emit_count[k] =>
                 /\ emit_count[k] = 0
                 /\ k = Head(new_events)
                 /\ PendingEvents \subseteq processed_events
                 /\ \A e \in PendingEvents : e[1] \in DOMAIN token_last_block
        /\ \A i \in DOMAIN decisions' :
              decisions'[i].emitted =>
                 /\ ~decisions'[i].seen
                 /\ decisions'[i].had_last =>
                       decisions'[i].block - decisions'[i].last >= DUPLICATE_CHECK_BLOCKS
      ]_vars

\* the first token of a batch was rejected by the pipeline; its event and
\* the event that still waits for its handler call are both recorded
C36_Witness ==
    /\ pc = "poll_emit"
    /\ pt_pc = "idle"
    /\ "rejected" \in faults
    /\ Len(new_events) = 1
    /\ PendingEvents \subseteq processed_events
    /\ \E k \in processed_events : emit_count[k] = 1 /\ k \notin PendingEvents

\* ------------------------------------------------------------------------
\* Properties of the approval (specification SpecPipeline)
\* ------------------------------------------------------------------------
\* C37: within one attempt, the swap transaction that is sent carries a
\* nonce different from the nonce of the approve transaction that was sent,
\* also when the approval's confirmation timed out.
C37_SwapNonceDiffersFromApprove ==
    \A i, j \in DOMAIN sent :
        (sent[i].kind = "approve" /\ sent[j].kind = "swap") =>
            sent[i].nonce # sent[j].nonce

\* the allowance read of the attempt raised
AllowanceReadRaised == reads = << Read("allowance", Raises) >>

C39_InitialLiquidityWrittenOnce ==
    [][ /\ has_liquidity_detected =>
              /\ has_liquidity_detected'
              /\ initial_liquidity' = initial_liquidity
        /\ (~has_liquidity_detected /\ has_liquidity_detected') =>
              /\ sn_check'.first
              /\ sn_check'.balance > 0
              /\ sniper_is_tradeable(sn_check'.info)
              /\ initial_liquidity' = sn_check'.info.liquidity_usd
        /\ ~has_liquidity_detected' => initial_liquidity' = 0
        /\ has_liquidity_detected' =>
              /\ max_liquidity_seen' >= initial_liquidity'
              /\ max_liquidity_seen' >= current_liquidity'
      ]_vars

\* the pool was found, grew, and shrank below the figure it was found at
C39_Witness ==
    /\ has_liquidity_detected
    /\ liquidity_check_count >= 3
    /\ current_liquidity < initial_liquidity
    /\ initial_liquidity < max_liquidity_seen

\* a check found a positive balance, a tradeable snapshot and a growth
\* ratio of at least the threshold
Qualifies(c) ==
    /\ c.balance > 0
    /\ sniper_is_tradeable(c.info)
    /\ c.info.liquidity_usd * 10 >= liquidity_growth_threshold * initial_liquidity

\* C40, as claimed: a check starts at most one swap attempt, and once an
\* attempt has ended (failed, reverted or succeeded) every check that
\* finds a positive balance, a tradeable snapshot and a growth ratio of at
\* least the threshold starts a new one.
C40_EveryQualifyingCheckSwaps ==
    [][ /\ Len(sn_outcomes') <= Len(sn_outcomes) + 1
        /\ (sn_outcomes # << >> /\ Qualifies(sn_check')) =>
               Len(sn_outcomes') = Len(sn_outcomes) + 1 ]_vars

\* C40, amended: a check starts at most one swap attempt, and once an
\* attempt has ended (failed, reverted or succeeded) every check that
\* finds a positive balance, a tradeable snapshot and a growth ratio of at
\* least the threshold goes on to the sale; it starts a new attempt exactly
\* when the total supply and the exact balance it then reads are positive.
C40_EveryQualifyingCheckSells ==
    [][ /\ Len(sn_outcomes') <= Len(sn_outcomes) + 1
        /\ (sn_outcomes # << >> /\ Qualifies(sn_check')) =>
               /\ sn_check'.selling
               /\ Len(sn_outcomes') = Len(sn_outcomes) + 1 <=>
                     (sn_check'.total_supply > 0 /\ sn_check'.amount_wei > 0) ]_vars

\* a swap has succeeded and a later check has started the next attempt
C40_Witness ==
    /\ Len(sn_outcomes) >= 2
    /\ sn_outcomes[1] = "succeeded"
    /\ sn_check # NoCheck
    /\ sn_check.swap
    /\ ~sn_check.first

====
